---- MODULE Spec2Model ----
(***************************************************************************)
(* DIGGS_SQL: the spreadsheet -> relational mapper (two variants), the     *)
(* relational -> DIGGS XML exporter and the DIGGS XML -> relational        *)
(* importer, as one state machine over a relational store with foreign-key *)
(* enforcement.                                                            *)
(*                                                                         *)
(* Every scalar is a string: "NULL" is Python None / SQL NULL, "nan" is a  *)
(* missing spreadsheet cell (pandas NaN), "" is the empty string.  Numbers *)
(* are carried as their literal ("4", "95.0").  Surrogate keys are the     *)
(* prefix followed by the value of a per-process counter (a fresh uuid).   *)
(***************************************************************************)
EXTENDS Integers, Sequences, FiniteSets, TLC

VARIABLES
  flow,      \* which program runs: "excel" | "xml" | "roundtrip" | "export" | "helper"
  variant,   \* which spreadsheet mapper: "corrected" (working/) | "bin" (bin/ via the processor)
  pc,        \* position of the running program
  db,        \* the store the spreadsheet mapper writes and the exporter reads (connection view)
  dbDisk,    \* what of db is committed
  ids,       \* the mapper's natural-key -> surrogate-key dictionaries
  nextId,    \* the uuid source: number of identifiers generated so far
  rowsRead,  \* spreadsheet rows consumed so far
  lastRow,   \* the mapper's loop variable `row`: the sheet and the cells of the row last read
  err,       \* why the run stopped: "none" | "open" | "row" | "invalid"
  doc,             \* the XML file handed to the importer (written by the exporter in a round trip)
  idb,             \* the store the XML importer writes (connection view)
  idbDisk,         \* what of idb is committed
  imported_ids,    \* the importer's seen sets, one per entity type
  gml_id_mapping,  \* the importer's gml:id -> surrogate key dictionaries
  namespaces,      \* the importer's prefix -> namespace URI table
  methods_imported,\* import_test_methods: the method names already inserted
  tests,           \* import_observations: its counters
  pos,             \* index of the next element of the running import phase
  faults,          \* storage failures raised so far by the importer's connection
  run,             \* number of the conversion run within the process, from 1
  call,            \* the helper call observed on its own: function, argument, result
  threads,         \* the GUI's worker threads: where each is, and on which conversion
  progress         \* the GUI's progress bar is animated

excelVars == <<variant, db, dbDisk, ids, rowsRead, lastRow>>
xmlVars == <<doc, idb, idbDisk, imported_ids, gml_id_mapping, namespaces, methods_imported,
             tests, pos, faults>>

guiVars == <<threads, progress>>

procVars == <<run, call, guiVars>>

vars == <<flow, pc, err, nextId, excelVars, xmlVars, procVars>>

----------------------------------------------------------------------------
(* Bounds *)

\* total number of rows in the workbook, all sheets together
MaxRows == 3

----------------------------------------------------------------------------
(* Scalars *)

NULL == "NULL"
NaN == "nan"

\* pd.isna(value)
isna(value) == value = NaN \/ value = NULL

\* pd.notna(row.get(key))
notna(value) == ~isna(value)

\* safe_get(row, key, default): NaN becomes the default (None unless given).
\* The bounded workbooks hold no timestamp cells, so the strftime branch is not taken.
safe_get(value, default) == IF isna(value) THEN default ELSE value

\* f"{prefix}{str(uuid.uuid4())[:8]}": the n-th fresh uuid of the process
generate_id(prefix, n) == prefix \o ToString(n)

----------------------------------------------------------------------------
(* The relational store *)

\* tables created by working/excel_to_sqlite_converter_corrected.py (those the bounded workbook can reach)
CorrectedTables ==
  {"_Rig", "_Client", "_Project", "_HoleInfo", "_Samples", "TestMethod", "_SPT",
   "MoistureContent", "AtterbergLimits", "Gradation", "Geology_Library",
   "DrillMethod", "fieldSoilDesc", "200wash", "Pocket_Pen", "torvane"}

\* tables created by bin/excel_to_sqlite_converter.py
BinTables ==
  {"_Rig", "_Client", "_Project", "_HoleInfo", "TestMethod", "_Samples", "_SPT",
   "AtterbergLimits"}

AllTables == CorrectedTables

\* "<col>" TEXT PRIMARY KEY
PrimaryKey(t) ==
  CASE t = "_Rig" -> "rigID"
    [] t = "_Client" -> "Client_ID"
    [] t = "_Project" -> "Project_ID"
    [] t = "_HoleInfo" -> "holeID"
    [] t = "_Samples" -> "Sample_ID"
    [] t = "TestMethod" -> "Method_ID"
    [] t = "Geology_Library" -> "Geo_ID"
    [] OTHER -> NULL

FK(col, ref, refcol) == [col |-> col, ref |-> ref, refcol |-> refcol]

SampleMethodFKs ==
  {FK("Sample_ID", "_Samples", "Sample_ID"), FK("Method_ID", "TestMethod", "Method_ID")}

\* FOREIGN KEY ("<col>") REFERENCES "<ref>" ("<refcol>")
ForeignKeys(t) ==
  CASE t = "_Project" -> {FK("Client_ID", "_Client", "Client_ID")}
    [] t = "_HoleInfo" -> {FK("rigID", "_Rig", "rigID"), FK("Project_ID", "_Project", "Project_ID")}
    [] t = "_Samples" -> {FK("holeID", "_HoleInfo", "holeID")}
    [] t = "DrillMethod" -> {FK("holeID", "_HoleInfo", "holeID")}
    [] t \in {"_SPT", "MoistureContent", "AtterbergLimits", "Gradation",
              "200wash", "Pocket_Pen", "torvane"} -> SampleMethodFKs
    [] t = "fieldSoilDesc" ->
         {FK("Sample_ID", "_Samples", "Sample_ID"), FK("Geo_ID", "Geology_Library", "Geo_ID")}
    [] OTHER -> {}

EmptyRows == [t \in AllTables |-> <<>>]
EmptyStore == [tables |-> {}, rows |-> EmptyRows]

RowsOf(store, t) == {store.rows[t][i] : i \in 1..Len(store.rows[t])}

\* the key values present in column col of table t
Keys(store, t, col) == {r[col] : r \in RowsOf(store, t)}

\* "no such table": the target, or (with foreign keys on) a referenced parent, does not exist
NoSuchTable(store, t) ==
  t \notin store.tables \/ \E fk \in ForeignKeys(t) : fk.ref \notin store.tables

\* UNIQUE constraint failed: the primary key is already present
PrimaryKeyConflict(store, t, row) ==
  PrimaryKey(t) # NULL /\ row[PrimaryKey(t)] \in Keys(store, t, PrimaryKey(t))

\* the store without PRAGMA foreign_keys = ON: no child key is checked
ForeignKeysOff(store, t, row) == FALSE

\* PRAGMA foreign_keys = ON: a non-null child key must name a parent row
ForeignKeyViolation(store, t, row) ==
  \E fk \in ForeignKeys(t) :
    row[fk.col] # NULL /\ row[fk.col] \notin Keys(store, fk.ref, fk.refcol)

\* cur.execute('INSERT [OR IGNORE] INTO t ...') raises sqlite3.Error.
\* OR IGNORE silences the primary-key conflict only, never the foreign key.
InsertRaises(store, t, row, orIgnore) ==
  \/ NoSuchTable(store, t)
  \/ (~orIgnore /\ PrimaryKeyConflict(store, t, row))
  \/ (~PrimaryKeyConflict(store, t, row) /\ ForeignKeyViolation(store, t, row))

\* the store after a cur.execute('INSERT ...') that did not raise
Insert(store, t, row) ==
  IF PrimaryKeyConflict(store, t, row) THEN store
  ELSE [store EXCEPT !.rows[t] = Append(@, row)]

Stmt(t, row) == [table |-> t, row |-> row]

\* a run of cur.execute('INSERT INTO ...') calls with no try/except around them:
\* the first one that raises ends the run of statements
RECURSIVE ExecAll(_, _)
ExecAll(store, stmts) ==
  IF stmts = <<>> THEN [ok |-> TRUE, store |-> store]
  ELSE IF InsertRaises(store, Head(stmts).table, Head(stmts).row, FALSE)
       THEN [ok |-> FALSE, store |-> store]
       ELSE ExecAll(Insert(store, Head(stmts).table, Head(stmts).row), Tail(stmts))

\* for table_sql in tables: cur.execute(table_sql)   (CREATE TABLE IF NOT EXISTS)
CreateTables(store, ts) == [store EXCEPT !.tables = @ \cup ts]

----------------------------------------------------------------------------
(* Python dictionaries, in insertion order *)

DictHas(d, k) == \E i \in 1..Len(d) : d[i].k = k

\* d.get(k): None when absent
DictGet(d, k) ==
  IF DictHas(d, k) THEN d[CHOOSE i \in 1..Len(d) : d[i].k = k].v ELSE NULL

\* d[k] = v: a present key keeps its position and takes the new value
DictPut(d, k, v) ==
  IF DictHas(d, k)
  THEN [i \in 1..Len(d) |-> IF d[i].k = k THEN [k |-> k, v |-> v] ELSE d[i]]
  ELSE Append(d, [k |-> k, v |-> v])

\* list(d.values())[0] if d else None
FirstValue(d) == IF d = <<>> THEN NULL ELSE d[1].v

\* before the first row is read
NoRow == [sheet |-> "none", cells |-> <<>>]

EmptyIds ==
  [client_ids |-> <<>>, project_ids |-> <<>>, rig_ids |-> <<>>,
   hole_ids |-> <<>>, sample_ids |-> <<>>, method_ids |-> <<>>]

----------------------------------------------------------------------------
(* The workbook: the rows a sheet may hold (column subsets of the template) *)

PRow(client, name) ==
  [clientName |-> client, clientContact |-> NaN, projectName |-> name, projectNumber |-> NaN]

ProjectRowInputs == {PRow("ACME", "P1"), PRow("ACME", "P2"), PRow("Beta", "P1")}

MethodRowInputs == {[methodName |-> m, governingBody |-> "ASTM"] : m \in {"D1586", "D4318"}}

HRow(name, rig, hammer) ==
  [holeName |-> name, rigDescription |-> rig, hammerType |-> hammer, bottomDepth |-> "30.0"]

HoleRowInputs ==
  {HRow("B1", "CME", "automatic"), HRow("B2", "CME", "automatic"), HRow("B1", "D50", "manual")}

NoSPT == <<NaN, NaN, NaN, NaN>>
NoPlasticity == <<NaN, NaN, NaN>>
NoSingles == <<NaN, NaN, NaN, NaN>>

\* a Samples row: spt = SPT_1..4, pl = PL, LL, PI, single = moistureContent,
\* passing200, pocketPenReading, torvaneReading
SRow(hole, spt, recovery, pl, single, geo, color) ==
  [HoleName |-> hole, SampleName |-> "S1", topDepth |-> "5.0", bottomDepth |-> "6.5",
   SPT_1 |-> spt[1], SPT_2 |-> spt[2], SPT_3 |-> spt[3], SPT_4 |-> spt[4],
   recovery |-> recovery, SPTMethod |-> "D1586",
   PL |-> pl[1], LL |-> pl[2], PI |-> pl[3], plasticityMethod |-> "D4318",
   moistureContent |-> single[1], moistureMethod |-> NaN, passing200 |-> single[2],
   pocketPenReading |-> single[3], torvaneReading |-> single[4],
   Geo_ID |-> geo, color |-> color]

SampleRowInputs ==
  {SRow("B1", NoSPT, NaN, NoPlasticity, NoSingles, NaN, NaN),
   SRow("B2", NoSPT, NaN, NoPlasticity, NoSingles, NaN, NaN),
   SRow("B1", <<"4", "6", "8", "10">>, "95.0", NoPlasticity, NoSingles, NaN, NaN),
   SRow("B1", <<NaN, "6", NaN, NaN>>, NaN, NoPlasticity, NoSingles, NaN, NaN),
   SRow("B1", NoSPT, "95.0", NoPlasticity, NoSingles, NaN, NaN),
   SRow("B1", NoSPT, NaN, <<"18", "42", "24">>, NoSingles, NaN, NaN),
   SRow("B1", NoSPT, NaN, <<NaN, "42", NaN>>, NoSingles, NaN, NaN),
   SRow("B1", <<"4", "6", "8", "10">>, "95.0", <<"18", "42", "24">>, NoSingles, NaN, NaN),
   SRow("B1", NoSPT, NaN, NoPlasticity, <<"21.5", "55.0", "1.5", "0.4">>, NaN, NaN),
   SRow("B1", NoSPT, NaN, NoPlasticity, NoSingles, "G1", "brown"),
   SRow("B1", NoSPT, NaN, NoPlasticity, NoSingles, NaN, "brown")}

GradationRowInputs == {[Boring |-> "B1", Sample |-> "S1", retNo4 |-> "12.5"]}

----------------------------------------------------------------------------
(* working/excel_to_sqlite_converter_corrected.py: the statements of one row *)

\* Project sheet, one row: the client once per (clientName, clientContact), then the project
ProjectRowStmts(row, d, n) ==
  LET client_key == safe_get(row.clientName, "") \o "_" \o safe_get(row.clientContact, "")
      fresh == ~DictHas(d.client_ids, client_key)
      client_id == generate_id("CLIENT_", n + 1)
      d1 == IF fresh THEN [d EXCEPT !.client_ids = DictPut(@, client_key, client_id)] ELSE d
      n1 == IF fresh THEN n + 1 ELSE n
      project_id == generate_id("PROJ_", n1 + 1)
      project_key == safe_get(row.projectName, "") \o "_" \o safe_get(row.projectNumber, "")
      d2 == [d1 EXCEPT !.project_ids = DictPut(@, project_key, project_id)]
  IN [stmts |->
        (IF fresh
         THEN <<Stmt("_Client", [Client_ID |-> client_id,
                                 clientName |-> safe_get(row.clientName, NULL)])>>
         ELSE <<>>)
        \o <<Stmt("_Project", [Project_ID |-> project_id,
                               Client_ID |-> DictGet(d1.client_ids, client_key),
                               projectName |-> safe_get(row.projectName, NULL),
                               projectNumber |-> safe_get(row.projectNumber, NULL)])>>,
      ids |-> d2, n |-> n1 + 1]

\* TestMethod sheet, one row
MethodRowStmts(row, d, n) ==
  LET method_id == generate_id("METHOD_", n + 1)
      method_key == safe_get(row.methodName, "")
  IN [stmts |-> <<Stmt("TestMethod", [Method_ID |-> method_id,
                                      methodName |-> safe_get(row.methodName, NULL),
                                      governingBody |-> safe_get(row.governingBody, NULL)])>>,
      ids |-> [d EXCEPT !.method_ids = DictPut(@, method_key, method_id)],
      n |-> n + 1]

\* HoleInfo sheet, one row: the rig once per (_rigDescription, hammerType), the hole,
\* and (corrected mapper only) its DrillMethod row.  The bounded workbook has no
\* initialWaterDepth / 24hrWater / caveInDepth columns.
HoleRowStmts(row, d, n, v) ==
  LET rig_key == safe_get(row.rigDescription, "") \o "_" \o safe_get(row.hammerType, "")
      fresh == ~DictHas(d.rig_ids, rig_key)
      rig_id == generate_id("RIG_", n + 1)
      d1 == IF fresh THEN [d EXCEPT !.rig_ids = DictPut(@, rig_key, rig_id)] ELSE d
      n1 == IF fresh THEN n + 1 ELSE n
      hole_id == generate_id("HOLE_", n1 + 1)
      hole_key == safe_get(row.holeName, "")
      d2 == [d1 EXCEPT !.hole_ids = DictPut(@, hole_key, hole_id)]
      project_id == FirstValue(d.project_ids)
  IN [stmts |->
        (IF fresh
         THEN <<Stmt("_Rig", [rigID |-> rig_id,
                              rigDescription |-> safe_get(row.rigDescription, NULL),
                              hammerType |-> safe_get(row.hammerType, NULL)])>>
         ELSE <<>>)
        \o <<Stmt("_HoleInfo", [holeID |-> hole_id,
                                rigID |-> DictGet(d1.rig_ids, rig_key),
                                Project_ID |-> project_id,
                                holeName |-> safe_get(row.holeName, NULL),
                                bottomDepth |-> safe_get(row.bottomDepth, NULL)])>>
        \o (IF v = "corrected" THEN <<Stmt("DrillMethod", [holeID |-> hole_id])>> ELSE <<>>),
      ids |-> d2, n |-> n1 + 1]

SPTRow(row, sample_id, method_id) ==
  [Sample_ID |-> sample_id, Method_ID |-> method_id,
   blowCount_index1 |-> safe_get(row.SPT_1, NULL), blowCount_index2 |-> safe_get(row.SPT_2, NULL),
   blowCount_index3 |-> safe_get(row.SPT_3, NULL), blowCount_index4 |-> safe_get(row.SPT_4, NULL),
   recovery |-> safe_get(row.recovery, NULL)]

AtterbergRow(row, sample_id, method_id) ==
  [Sample_ID |-> sample_id, Method_ID |-> method_id,
   plasticLimit |-> safe_get(row.PL, NULL), liquidLimit |-> safe_get(row.LL, NULL),
   plasticityIndex |-> safe_get(row.PI, NULL)]

SampleRow(row, sample_id, hole_id) ==
  [Sample_ID |-> sample_id, holeID |-> hole_id,
   sampleName |-> safe_get(row.SampleName, NULL),
   pos_topDepth |-> safe_get(row.topDepth, NULL),
   pos_bottomDepth |-> safe_get(row.bottomDepth, NULL)]

ReadingRow(sample_id, method_id, value) ==
  [Sample_ID |-> sample_id, Method_ID |-> method_id, reading |-> value]

\* if any(pd.notna(row.get(f'SPT_{i}')) for i in range(1, 5))
HasSPT(row) == notna(row.SPT_1) \/ notna(row.SPT_2) \/ notna(row.SPT_3) \/ notna(row.SPT_4)

\* if any(pd.notna(row.get(field)) for field in ['PL', 'LL', 'PI'])
HasAtterberg(row) == notna(row.PL) \/ notna(row.LL) \/ notna(row.PI)

\* if pd.notna(row.get('Geo_ID'))
HasFieldSoilDesc(row) == notna(row.Geo_ID)

\* Samples sheet, one row (corrected mapper): the sample, then one row per inline
\* test group whose trigger columns hold a value
SampleRowStmts(row, d, n) ==
  LET sample_id == generate_id("SAMPLE_", n + 1)
      sample_key == safe_get(row.HoleName, "") \o "_" \o safe_get(row.SampleName, "")
      hole_id == DictGet(d.hole_ids, safe_get(row.HoleName, NULL))
  IN [stmts |->
        <<Stmt("_Samples", SampleRow(row, sample_id, hole_id))>>
        \o (IF HasSPT(row)
            THEN <<Stmt("_SPT", SPTRow(row, sample_id,
                                      DictGet(d.method_ids, safe_get(row.SPTMethod, NULL))))>>
            ELSE <<>>)
        \o (IF notna(row.moistureContent)
            THEN <<Stmt("MoistureContent",
                        ReadingRow(sample_id, DictGet(d.method_ids, safe_get(row.moistureMethod, NULL)),
                                   safe_get(row.moistureContent, NULL)))>>
            ELSE <<>>)
        \o (IF HasAtterberg(row)
            THEN <<Stmt("AtterbergLimits",
                        AtterbergRow(row, sample_id,
                                     DictGet(d.method_ids, safe_get(row.plasticityMethod, NULL))))>>
            ELSE <<>>)
        \o (IF notna(row.passing200)
            THEN <<Stmt("200wash", ReadingRow(sample_id, NULL, safe_get(row.passing200, NULL)))>>
            ELSE <<>>)
        \o (IF notna(row.pocketPenReading)
            THEN <<Stmt("Pocket_Pen", ReadingRow(sample_id, NULL, safe_get(row.pocketPenReading, NULL)))>>
            ELSE <<>>)
        \o (IF notna(row.torvaneReading)
            THEN <<Stmt("torvane", ReadingRow(sample_id, NULL, safe_get(row.torvaneReading, NULL)))>>
            ELSE <<>>)
        \o (IF HasFieldSoilDesc(row)
            THEN <<Stmt("fieldSoilDesc", [Sample_ID |-> sample_id,
                                          Geo_ID |-> safe_get(row.Geo_ID, NULL),
                                          color |-> safe_get(row.color, NULL)])>>
            ELSE <<>>),
      ids |-> [d EXCEPT !.sample_ids = DictPut(@, sample_key, sample_id)],
      n |-> n + 1]

\* Gradation sheet, one row
GradationRowStmts(row, d, n) ==
  LET sample_key == safe_get(row.Boring, "") \o "_" \o safe_get(row.Sample, "")
  IN [stmts |-> <<Stmt("Gradation", [Sample_ID |-> DictGet(d.sample_ids, sample_key),
                                     Method_ID |-> NULL,
                                     retNo4 |-> safe_get(row.retNo4, NULL)])>>,
      ids |-> d, n |-> n]

----------------------------------------------------------------------------
(* bin/excel_to_sqlite_converter.py: the Samples sheet differs *)

\* Samples sheet, one row (bin mapper): nothing is written unless the hole is known;
\* SPT is keyed on SPT_1 alone and Atterberg on PL alone
BinSampleRowStmts(row, d, n) ==
  LET sample_id == generate_id("SAMPLE_", n + 1)
      hole_name == safe_get(row.HoleName, "")
      hole_id == DictGet(d.hole_ids, hole_name)
      sample_key == hole_name \o "_" \o safe_get(row.SampleName, "")
  IN IF hole_id = NULL
     THEN [stmts |-> <<>>, ids |-> d, n |-> n + 1]
     ELSE [stmts |->
             <<Stmt("_Samples", SampleRow(row, sample_id, hole_id))>>
             \o (IF notna(row.SPT_1)
                 THEN <<Stmt("_SPT", SPTRow(row, sample_id,
                                           DictGet(d.method_ids, safe_get(row.SPTMethod, "ASTM D1586"))))>>
                 ELSE <<>>)
             \o (IF notna(row.PL)
                 THEN <<Stmt("AtterbergLimits",
                             AtterbergRow(row, sample_id,
                                          DictGet(d.method_ids, safe_get(row.plasticityMethod, "ASTM D4318"))))>>
                 ELSE <<>>),
           ids |-> [d EXCEPT !.sample_ids = DictPut(@, sample_key, sample_id)],
           n |-> n + 1]

----------------------------------------------------------------------------
(* convert_excel_to_sqlite, both mappers *)

\* the sheets in the order the mapper reads them (those the bounded workbook holds)
SheetOrder(v) ==
  IF v = "corrected"
  THEN <<"Project", "TestMethod", "HoleInfo", "Samples", "Gradation">>
  ELSE <<"Project", "TestMethod", "HoleInfo", "Samples">>

InSheet(name) == flow \in {"excel", "roundtrip"} /\ pc = name /\ rowsRead < MaxRows

\* a store that geology_library.create_geology_library_table has been run on
GeologyStore ==
  [tables |-> {"Geology_Library"},
   rows |-> [EmptyRows EXCEPT !["Geology_Library"] = <<[Geo_ID |-> "G1"]>>]]

\* ExcelToSQLiteConverter.process (executable/src/excel_processor.py): validate_input
\* opens the workbook first and refuses the run before the mapper is entered
ValidateInput ==
  /\ pc = "validate"
  /\ \E ok \in BOOLEAN :
       IF ok THEN pc' = "create" /\ err' = err
       ELSE pc' = "rejected" /\ err' = "invalid"
  /\ UNCHANGED <<procVars, flow, variant, db, dbDisk, ids, nextId, rowsRead, lastRow, xmlVars>>

\* create_database_structure: CREATE TABLE IF NOT EXISTS for every table, conn.commit()
CreateDatabaseStructure ==
  /\ pc = "create"
  /\ db' = CreateTables(db, IF variant = "corrected" THEN CorrectedTables ELSE BinTables)
  /\ dbDisk' = db'
  /\ pc' = "open"
  /\ UNCHANGED <<procVars, flow, variant, ids, nextId, rowsRead, lastRow, err, xmlVars>>

\* excel_file = pd.ExcelFile(excel_path): raises when the file is missing or is no
\* workbook.  Behind the processor the file was opened by validate_input just before.
OpenWorkbook ==
  /\ pc = "open"
  /\ \E ok \in (IF variant = "corrected" THEN BOOLEAN ELSE {TRUE}) :
       IF ok THEN pc' = "Project" /\ err' = err
       ELSE pc' = "aborted" /\ err' = "open"
  /\ UNCHANGED <<procVars, flow, variant, db, dbDisk, ids, nextId, rowsRead, lastRow, xmlVars>>

\* the body of one `for _, row in df.iterrows()` round: the statements in order; an
\* exception leaves the function (no try/except in either mapper), the connection is
\* dropped and its open transaction is rolled back
RunRow(cells, res) ==
  LET out == ExecAll(db, res.stmts)
  IN /\ rowsRead' = rowsRead + 1
     /\ lastRow' = [sheet |-> pc, cells |-> cells]
     /\ nextId' = res.n
     /\ ids' = res.ids
     /\ IF out.ok
        THEN db' = out.store /\ pc' = pc /\ err' = err
        ELSE db' = dbDisk /\ pc' = "aborted" /\ err' = "row"
     /\ UNCHANGED <<procVars, flow, variant, dbDisk, xmlVars>>

ProjectSheetRow ==
  /\ InSheet("Project")
  /\ \E r \in ProjectRowInputs : RunRow(r, ProjectRowStmts(r, ids, nextId))

TestMethodSheetRow ==
  /\ InSheet("TestMethod")
  /\ \E r \in MethodRowInputs : RunRow(r, MethodRowStmts(r, ids, nextId))

HoleInfoSheetRow ==
  /\ InSheet("HoleInfo")
  /\ \E r \in HoleRowInputs : RunRow(r, HoleRowStmts(r, ids, nextId, variant))

SamplesSheetRow ==
  /\ InSheet("Samples")
  /\ \E r \in SampleRowInputs :
       RunRow(r, IF variant = "corrected" THEN SampleRowStmts(r, ids, nextId)
                 ELSE BinSampleRowStmts(r, ids, nextId))

GradationSheetRow ==
  /\ InSheet("Gradation")
  /\ \E r \in GradationRowInputs : RunRow(r, GradationRowStmts(r, ids, nextId))

\* the sheet has no further row (or is absent): on to the next sheet, or to the commit
NextSheet ==
  /\ flow \in {"excel", "roundtrip"}
  /\ \E i \in 1..Len(SheetOrder(variant)) :
       /\ pc = SheetOrder(variant)[i]
       /\ pc' = IF i < Len(SheetOrder(variant)) THEN SheetOrder(variant)[i + 1] ELSE "commit"
  /\ UNCHANGED <<procVars, flow, variant, db, dbDisk, ids, nextId, rowsRead, lastRow, err, xmlVars>>

\* conn.commit(); conn.close()
CommitWorkbook ==
  /\ pc = "commit"
  /\ dbDisk' = db
  /\ pc' = "done"
  /\ UNCHANGED <<procVars, flow, variant, db, ids, nextId, rowsRead, lastRow, err, xmlVars>>

----------------------------------------------------------------------------
(* XML documents: elements with a namespace, attributes, text and children *)

DiggsNS == "http://diggsml.org/schemas/2.6"
DevNS == "http://diggsml.org/schema-dev"
GmlNS == "http://www.opengis.net/gml/3.2"
GeoNS == "http://diggsml.org/schemas/2.6/geotechnical"
NoNS == ""

\* id: the gml:id attribute; href: xlink:href; ghref: gml:href
Elem(tag, ns, id, href, ghref, text, kids) ==
  [tag |-> tag, ns |-> ns, id |-> id, href |-> href, ghref |-> ghref,
   text |-> text, kids |-> kids]

\* a leaf element holding text
Leaf(tag, ns, text) == Elem(tag, ns, NULL, NULL, NULL, text, <<>>)

\* an element holding only children
Node(tag, ns, kids) == Elem(tag, ns, NULL, NULL, NULL, NULL, kids)

\* Python None where an element is expected
NoElement == Elem(NULL, NoNS, NULL, NULL, NULL, NULL, <<>>)

\* the descendants of e in document order ('.//')
RECURSIVE Descendants(_)
RECURSIVE DescendantsOfAll(_)
Descendants(e) == DescendantsOfAll(e.kids)
DescendantsOfAll(es) ==
  IF es = <<>> THEN <<>>
  ELSE <<Head(es)>> \o Descendants(Head(es)) \o DescendantsOfAll(Tail(es))

\* parent.findall('.//{ns}tag'); ns = "" is the unqualified './/tag'
FindAll(parent, ns, tag) ==
  LET hit(e) == e.tag = tag /\ e.ns = ns
  IN SelectSeq(Descendants(parent), hit)

\* parent.find(...): the first match or None
Find(parent, ns, tag) ==
  LET all == FindAll(parent, ns, tag) IN IF all = <<>> THEN NoElement ELSE Head(all)

\* self.namespaces, as set by __init__
DefaultNamespaces == [diggs |-> DiggsNS, gml |-> GmlNS, diggs_geo |-> GeoNS]

\* the lookup with its order reversed: the unqualified name first, then the namespace
find_unqualified_first(parent, tag_name, use_gml, nsmap) ==
  LET bare == Find(parent, NoNS, tag_name)
  IN IF bare = NoElement
     THEN Find(parent, IF use_gml THEN nsmap.gml ELSE nsmap.diggs, tag_name)
     ELSE bare

\* find_element(parent, tag_name, use_gml): prefix-qualified, then the expanded
\* URI, then the unqualified name
find_element(parent, tag_name, use_gml, nsmap) ==
  LET uri == IF use_gml THEN nsmap.gml ELSE nsmap.diggs
      try1 == Find(parent, uri, tag_name)
      try2 == IF try1 = NoElement THEN Find(parent, uri, tag_name) ELSE try1
  IN IF try2 = NoElement THEN Find(parent, NoNS, tag_name) ELSE try2

\* findall_elements(parent, tag_name, use_gml)
findall_elements(parent, tag_name, use_gml, nsmap) ==
  LET uri == IF use_gml THEN nsmap.gml ELSE nsmap.diggs
      try1 == FindAll(parent, uri, tag_name)
      try2 == IF try1 = <<>> THEN FindAll(parent, uri, tag_name) ELSE try1
  IN IF try2 = <<>> THEN FindAll(parent, NoNS, tag_name) ELSE try2

\* bool(element): an Element without children is false
Truthy(e) == e # NoElement /\ e.kids # <<>>

\* str.strip() on the texts the bounded documents hold
Strip(text) ==
  CASE text \in {" ", "  "} -> ""
    [] text = " 5 " -> "5"
    [] OTHER -> text

\* safe_text(element): None unless the element has non-empty text
safe_text(element) ==
  IF element # NoElement /\ element.text \notin {NULL, ""} THEN Strip(element.text) ELSE NULL

\* float(text) on the literals the bounded documents hold; "" where it raises ValueError.
\* float() accepts the non-finite literals 'inf', '-inf' and 'nan'.
FloatLiteral(text) ==
  CASE text \in {"5", "5.0"} -> "5.0"
    [] text \in {"6.5", "30.0", "95.0", "0.0", "18.0", "42.0", "24.0"} -> text
    [] text = "0" -> "0.0"
    [] text \in {"inf", "-inf", "nan"} -> text
    [] OTHER -> ""

\* safe_float(element)
safe_float(element) ==
  LET text == safe_text(element)
  IN IF text \notin {NULL, ""} /\ FloatLiteral(text) # "" THEN FloatLiteral(text) ELSE NULL

\* an exception that leaves the function: int(inf) raises OverflowError, which the
\* `except (ValueError, TypeError)` of safe_int does not name
OverflowError == "raise OverflowError"

\* int(value) of a float: truncation; "" where it raises ValueError (nan)
IntOfFloat(value) ==
  CASE value = "5.0" -> "5"
    [] value = "6.5" -> "6"
    [] value = "30.0" -> "30"
    [] value = "95.0" -> "95"
    [] value = "0.0" -> "0"
    [] value = "18.0" -> "18"
    [] value = "42.0" -> "42"
    [] value = "24.0" -> "24"
    [] value \in {"inf", "-inf"} -> OverflowError
    [] OTHER -> ""

\* safe_int(element): int(float(text))
safe_int(element) ==
  LET text == safe_text(element)
  IN IF text \notin {NULL, ""} /\ FloatLiteral(text) # "" /\ IntOfFloat(FloatLiteral(text)) # ""
     THEN IntOfFloat(FloatLiteral(text))
     ELSE NULL

\* root.tag.endswith('Diggs') or 'diggs' in root.tag.lower(), root.tag being '{ns}tag'
IsDiggsRoot(root) ==
  \/ root.tag \in {"Diggs"}
  \/ root.tag \in {"diggs", "DiggsDocument", "diggs_file"}
  \/ root.ns \in {DiggsNS, DevNS, GeoNS}

----------------------------------------------------------------------------
(* The XML files handed to the importer *)

\* number of Project, Borehole, Sample and measurement elements in a document, together
MaxElems == 3

\* storage failures (sqlite3.Error other than a constraint) one import run may meet
MaxFaults == 1

ProjectElem(ns, id) ==
  Elem("Project", ns, id, NULL, NULL, NULL,
       <<Leaf("name", GmlNS, "P1"), Leaf("internalIdentifier", ns, "N-1"),
         Node("role", ns, <<Node("BusinessAssociate", ns, <<Leaf("name", GmlNS, "ACME")>>)>>)>>)

BoreholeElem(ns, id, project, drilling) ==
  Elem("Borehole", ns, id, NULL, NULL, NULL,
       <<Leaf("name", GmlNS, id), Elem("projectRef", ns, NULL, project, NULL, NULL, <<>>)>>
       \o (IF drilling
           THEN <<Node("drillingInformation", ns, <<Leaf("rigDescription", ns, "CME")>>)>>
           ELSE <<>>))

SampleElem(ns, id, hole) ==
  Elem("Sample", ns, id, NULL, NULL, NULL,
       <<Leaf("name", GmlNS, id),
         Node("depthInterval", ns, <<Leaf("topDepth", ns, "5"), Leaf("bottomDepth", ns, "6.5")>>)>>
       \o (IF hole # NULL
           THEN <<Elem("samplingActivityRef", ns, NULL, hole, NULL, NULL, <<>>)>>
           ELSE <<>>))

TestMethodElem(ns, name) == Node("testMethod", ns, <<Leaf("name", ns, name)>>)

\* <driveSet><DriveSet><blowCount>count</blowCount></DriveSet></driveSet>
DriveSetElem(ns, count) ==
  Node("driveSet", ns, <<Node("DriveSet", ns, <<Leaf("blowCount", ns, count)>>)>>)

\* the blow counts of the four drive sets of the SPT test of the bounded documents
DriveSetReadings == <<"4", "6", "8", "10">>

MeasurementElem(ns, kind) ==
  Node("measurement", ns,
       <<Node("Test", ns,
              <<Leaf("name", GmlNS, "T-1")>>
              \o (CASE kind = "spt" ->
                         <<Elem("samplingFeatureRef", ns, NULL, "#b1", NULL, NULL, <<>>),
                           Node("procedure", ns,
                                <<Node("DrivenPenetrationTest", ns,
                                       <<TestMethodElem(ns, "SPT")>>
                                       \o [i \in 1..4 |-> DriveSetElem(ns, DriveSetReadings[i])])>>)>>
                    [] kind = "atterberg" ->
                         <<Node("procedure", ns,
                                <<Node("AtterbergLimitsTest", ns, <<TestMethodElem(ns, "SPT")>>)>>)>>
                    [] OTHER -> <<>>))>>)

ProjectElems(ns) == {ProjectElem(ns, id) : id \in {"p1", "p2"}}

BoreholeElems(ns) ==
  {BoreholeElem(ns, "b1", "#p1", FALSE), BoreholeElem(ns, "b2", "#p2", FALSE),
   BoreholeElem(ns, "b1", "#p1", TRUE)}

SampleElems(ns) ==
  {SampleElem(ns, "s1", NULL), SampleElem(ns, "s1", "#b1"), SampleElem(ns, "s1", "#b2"),
   SampleElem(ns, "s2", "#b2")}

MeasurementElems(ns) == {MeasurementElem(ns, kind) : kind \in {"spt", "atterberg", "bare"}}

DocNamespaces == {DiggsNS, DevNS, NoNS}

\* how many elements of each of the four kinds a document holds
ElemCounts == {c \in [1..4 -> 0..MaxElems] : c[1] + c[2] + c[3] + c[4] <= MaxElems}

File(status, root) == [status |-> status, root |-> root]

\* well-formed DIGGS documents
DiggsDocs ==
  UNION {{File("ok", Node("Diggs", ns, p \o b \o s \o m)) :
            p \in [1..c[1] -> ProjectElems(ns)], b \in [1..c[2] -> BoreholeElems(ns)],
            s \in [1..c[3] -> SampleElems(ns)], m \in [1..c[4] -> MeasurementElems(ns)]} :
         c \in ElemCounts, ns \in DocNamespaces}

\* a path that names no file, a file that is no XML, an XML file that is no DIGGS
\* document, an XML file whose root is a Project element of the DIGGS namespace
BadFiles ==
  {File("missing", NoElement), File("malformed", NoElement),
   File("ok", Node("html", "http://www.w3.org/1999/xhtml", <<ProjectElem(NoNS, "p1")>>)),
   File("ok", Node("Project", DiggsNS, <<Leaf("name", GmlNS, "P1")>>))}

----------------------------------------------------------------------------
(* bin/diggs_to_sqlite_importer.py *)

\* element.get('{gml-uri}id'), else element.get('gml:id'): None when absent or empty
GmlId(e) == IF e.id \in {NULL, ""} THEN NULL ELSE e.id

\* href and href.startswith('#'), on the references the bounded documents hold
StartsWithHash(href) == href \in {"#" \o id : id \in {"p1", "p2", "b1", "b2", "s1", "s2"}}

\* the loop without its seen-set test
NeverImported(seen, gml_id) == FALSE

\* if gml_id in self.imported_ids[kind]: continue
AlreadyImported(seen, gml_id) == gml_id \in seen

\* try: self.cur.execute('INSERT OR IGNORE INTO t ...') / except sqlite3.Error.
\* fault: the connection raises for a reason of its own (locked, full, read-only)
TryInsert(store, t, row, fault) ==
  IF fault \/ InsertRaises(store, t, row, TRUE)
  THEN [ok |-> FALSE, store |-> store]
  ELSE [ok |-> TRUE, store |-> Insert(store, t, row)]

\* cur.execute('SELECT col FROM t LIMIT 1'); fetchone(): the key of some row (a SELECT
\* without ORDER BY returns rows in the engine's order), None without a row or a table
FirstAvailable(store, t, col) ==
  IF t \notin store.tables \/ store.rows[t] = <<>> THEN {NULL} ELSE Keys(store, t, col)

\* the insert without its try/except: the exception leaves import_diggs_xml
AbortOnElementFailure(phase) == "aborted"

\* except sqlite3.Error as e: print("Warning: Could not import ...") -- the for loop
\* goes on with the next element
AfterElementFailure(phase) == phase

\* which statement of the element, if any, meets a storage failure
FaultChoices(names) ==
  {"none"} \cup (IF flow = "xml" /\ faults < MaxFaults THEN names ELSE {})

\* "DIGGS sqlite.py" by lines: does the stripped line start with the opening of a
\* cur.execute call, does it contain CREATE TABLE, does it end with the call's closing
SchemaLine(opens, creates, closes, table) ==
  [opens |-> opens, creates |-> creates, closes |-> closes, table |-> table]

\* one call of the script: the opening line, the CREATE TABLE "t" ( line, a column
\* line, the closing line
SchemaCall(t) ==
  <<SchemaLine(TRUE, FALSE, FALSE, NULL), SchemaLine(FALSE, TRUE, FALSE, t),
    SchemaLine(FALSE, FALSE, FALSE, NULL), SchemaLine(FALSE, FALSE, TRUE, NULL)>>

SchemaScript == SchemaCall("_Client") \o SchemaCall("_Project") \o SchemaCall("_HoleInfo")

\* the tables of the CREATE TABLE statements create_database_if_not_exists extracts:
\* a statement starts on a line that both opens the call and holds CREATE TABLE
RECURSIVE ExtractCreateStatements(_, _)
ExtractCreateStatements(lines, in_create) ==
  IF lines = <<>> THEN {}
  ELSE LET line == Head(lines)
       IN IF line.opens /\ line.creates
          THEN (IF line.table = NULL THEN {} ELSE {line.table})
               \cup ExtractCreateStatements(Tail(lines), TRUE)
          ELSE IF in_create
               THEN ExtractCreateStatements(Tail(lines), ~line.closes)
               ELSE ExtractCreateStatements(Tail(lines), FALSE)

\* import_diggs_xml up to the namespace detection: the file must exist, parse, and have
\* a root whose tag names DIGGS; each failure is raised to the caller
OpenDocument ==
  /\ pc = "parse"
  /\ IF doc.status = "missing" THEN pc' = "aborted" /\ err' = "missing" /\ namespaces' = namespaces
     ELSE IF doc.status = "malformed" THEN pc' = "aborted" /\ err' = "parse" /\ namespaces' = namespaces
     ELSE IF ~IsDiggsRoot(doc.root) THEN pc' = "aborted" /\ err' = "root" /\ namespaces' = namespaces
     ELSE /\ pc' = "schema"
          /\ err' = err
          /\ namespaces' = IF doc.root.ns # NoNS /\ doc.root.ns # namespaces.diggs
                           THEN [namespaces EXCEPT !.diggs = doc.root.ns]
                           ELSE namespaces
  /\ UNCHANGED <<procVars, flow, nextId, excelVars, doc, idb, idbDisk, imported_ids, gml_id_mapping,
                 methods_imported, tests, pos, faults>>

\* create_database_if_not_exists: the extracted statements are run, then conn.commit().
\* (Without the schema file beside the package nothing is run either.)
CreateDatabaseIfNotExists ==
  /\ pc = "schema"
  /\ idb' = CreateTables(idb, ExtractCreateStatements(SchemaScript, FALSE))
  /\ idbDisk' = idb'
  /\ pc' = "projects"
  /\ pos' = 1
  /\ UNCHANGED <<procVars, flow, err, nextId, excelVars, doc, imported_ids, gml_id_mapping, namespaces,
                 methods_imported, tests, faults>>

\* import_projects: the client named by role/BusinessAssociate/name
ClientName(project, nsmap) ==
  LET role_elem == find_element(project, "role", FALSE, nsmap)
      ba_elem == IF role_elem # NoElement
                 THEN find_element(role_elem, "BusinessAssociate", FALSE, nsmap)
                 ELSE NoElement
      ba_name_elem == IF ba_elem # NoElement THEN find_element(ba_elem, "name", TRUE, nsmap)
                      ELSE NoElement
  IN safe_text(ba_name_elem)

\* import_projects, one round of `for project in projects`
ImportProject ==
  /\ pc = "projects"
  /\ LET projects == findall_elements(doc.root, "Project", FALSE, namespaces)
     IN /\ pos <= Len(projects)
        /\ LET project == projects[pos]
               gml_id == GmlId(project)
               client_id == generate_id("CLIENT_", nextId + 1)
               project_id == generate_id("PROJ_", nextId + 2)
           IN IF AlreadyImported(imported_ids.projects, gml_id)
              THEN UNCHANGED <<pc, idb, imported_ids, nextId, faults>>
              ELSE \E fault \in FaultChoices({"client", "project"}) :
                     LET c == TryInsert(idb, "_Client",
                                        [Client_ID |-> client_id,
                                         clientName |-> ClientName(project, namespaces)],
                                        fault = "client")
                         p == TryInsert(c.store, "_Project",
                                        [Project_ID |-> project_id, Client_ID |-> client_id,
                                         projectName |->
                                           safe_text(find_element(project, "name", TRUE, namespaces)),
                                         projectNumber |->
                                           safe_text(find_element(project, "internalIdentifier",
                                                                  FALSE, namespaces))],
                                        fault = "project")
                     IN /\ idb' = p.store
                        /\ imported_ids' = IF p.ok
                                           THEN [imported_ids EXCEPT !.projects = @ \cup {gml_id}]
                                           ELSE imported_ids
                        /\ pc' = IF p.ok THEN pc ELSE AfterElementFailure(pc)
                        /\ nextId' = nextId + 2
                        /\ faults' = IF fault = "none" THEN faults ELSE faults + 1
  /\ pos' = pos + 1
  /\ UNCHANGED <<procVars, flow, err, excelVars, doc, idbDisk, gml_id_mapping, namespaces,
                 methods_imported, tests>>

\* import_sampling_features, one round of `for feature in features`
ImportBorehole ==
  /\ pc = "holes"
  /\ LET features == findall_elements(doc.root, "Borehole", FALSE, namespaces)
     IN /\ pos <= Len(features)
        /\ LET feature == features[pos]
               gml_id == GmlId(feature)
               borehole_elem == Find(feature, NoNS, "boreholeDetails")
               total_depth == IF borehole_elem # NoElement
                              THEN safe_float(Find(borehole_elem, NoNS, "totalDepth"))
                              ELSE NULL
               drilling_elem == find_element(feature, "drillingInformation", FALSE, namespaces)
               has_rig == drilling_elem # NoElement
               new_rig == generate_id("RIG_", nextId + 1)
               n1 == IF has_rig THEN nextId + 1 ELSE nextId
               hole_id == generate_id("HOLE_", n1 + 1)
           IN IF AlreadyImported(imported_ids.holes, gml_id)
              THEN UNCHANGED <<pc, idb, imported_ids, gml_id_mapping, nextId, faults>>
              ELSE \E fault \in FaultChoices((IF has_rig THEN {"rig"} ELSE {}) \cup {"hole"}) :
                     LET r == IF has_rig
                              THEN TryInsert(idb, "_Rig",
                                             [rigID |-> new_rig,
                                              rigDescription |->
                                                safe_text(find_element(drilling_elem, "rigDescription",
                                                                       FALSE, namespaces)),
                                              hammerType |->
                                                safe_text(find_element(drilling_elem, "hammerType",
                                                                       FALSE, namespaces))],
                                             fault = "rig")
                              ELSE [ok |-> FALSE, store |-> idb]
                         rig_id == IF r.ok THEN new_rig ELSE NULL
                     IN \E project_id \in FirstAvailable(r.store, "_Project", "Project_ID") :
                          LET h == TryInsert(r.store, "_HoleInfo",
                                             [holeID |-> hole_id, rigID |-> rig_id,
                                              Project_ID |-> project_id,
                                              holeName |->
                                                safe_text(find_element(feature, "name", TRUE, namespaces)),
                                              bottomDepth |-> total_depth],
                                             fault = "hole")
                          IN /\ idb' = h.store
                             /\ imported_ids' = IF h.ok
                                                THEN [imported_ids EXCEPT !.holes = @ \cup {gml_id}]
                                                ELSE imported_ids
                             /\ gml_id_mapping' =
                                  IF h.ok
                                  THEN [gml_id_mapping EXCEPT !.holes = DictPut(@, gml_id, hole_id)]
                                  ELSE gml_id_mapping
                             /\ pc' = IF h.ok THEN pc ELSE AfterElementFailure(pc)
                             /\ nextId' = n1 + 1
                             /\ faults' = IF fault = "none" THEN faults ELSE faults + 1
  /\ pos' = pos + 1
  /\ UNCHANGED <<procVars, flow, err, excelVars, doc, idbDisk, namespaces, methods_imported, tests>>

\* import_samples, one round of `for sample in samples`
ImportSample ==
  /\ pc = "samples"
  /\ LET samples == findall_elements(doc.root, "Sample", FALSE, namespaces)
     IN /\ pos <= Len(samples)
        /\ LET sample == samples[pos]
               gml_id == GmlId(sample)
               depth_elem == find_element(sample, "depthInterval", FALSE, namespaces)
               top_depth == IF depth_elem # NoElement
                            THEN safe_float(find_element(depth_elem, "topDepth", FALSE, namespaces))
                            ELSE NULL
               bottom_depth == IF depth_elem # NoElement
                               THEN safe_float(find_element(depth_elem, "bottomDepth", FALSE, namespaces))
                               ELSE NULL
               activity_ref == find_element(sample, "samplingActivityRef", FALSE, namespaces)
               holes == IF activity_ref # NoElement /\ StartsWithHash(activity_ref.href)
                        THEN FirstAvailable(idb, "_HoleInfo", "holeID")
                        ELSE {NULL}
               sample_id == generate_id("SAMPLE_", nextId + 1)
           IN IF AlreadyImported(imported_ids.samples, gml_id)
              THEN UNCHANGED <<pc, idb, imported_ids, gml_id_mapping, nextId, faults>>
              ELSE \E fault \in FaultChoices({"sample"}), hole_id \in holes :
                     LET x == TryInsert(idb, "_Samples",
                                        [Sample_ID |-> sample_id, holeID |-> hole_id,
                                         sampleName |->
                                           safe_text(find_element(sample, "name", TRUE, namespaces)),
                                         pos_topDepth |-> top_depth,
                                         pos_bottomDepth |-> bottom_depth],
                                        fault = "sample")
                     IN /\ idb' = x.store
                        /\ imported_ids' = IF x.ok
                                           THEN [imported_ids EXCEPT !.samples = @ \cup {gml_id}]
                                           ELSE imported_ids
                        /\ gml_id_mapping' =
                             IF x.ok
                             THEN [gml_id_mapping EXCEPT !.samples = DictPut(@, gml_id, sample_id)]
                             ELSE gml_id_mapping
                        /\ pc' = IF x.ok THEN pc ELSE AfterElementFailure(pc)
                        /\ nextId' = nextId + 1
                        /\ faults' = IF fault = "none" THEN faults ELSE faults + 1
  /\ pos' = pos + 1
  /\ UNCHANGED <<procVars, flow, err, excelVars, doc, idbDisk, namespaces, methods_imported, tests>>

\* import_test_methods: the test elements, found by their unqualified tag only
TestElements(root) ==
  FindAll(root, NoNS, "AtterbergLimitsTest") \o FindAll(root, NoNS, "DrivenPenetrationTest")
  \o FindAll(root, NoNS, "ConsolidationTest")

\* import_test_methods, one round of `for test in test_elements`
ImportTestMethod ==
  /\ pc = "methods"
  /\ pos <= Len(TestElements(doc.root))
  /\ LET test == TestElements(doc.root)[pos]
         method_elem == Find(test, NoNS, "testMethod")
         method_name == IF method_elem # NoElement
                        THEN safe_text(Find(method_elem, NoNS, "name"))
                        ELSE NULL
         standard == IF method_elem # NoElement
                     THEN safe_text(Find(method_elem, NoNS, "standard"))
                     ELSE NULL
         method_id == generate_id("METHOD_", nextId + 1)
     IN IF method_name \notin {NULL, ""} /\ method_name \notin methods_imported
        THEN \E fault \in FaultChoices({"method"}) :
               LET m == TryInsert(idb, "TestMethod",
                                  [Method_ID |-> method_id, methodName |-> method_name,
                                   governingBody |-> standard],
                                  fault = "method")
               IN /\ idb' = m.store
                  /\ methods_imported' = IF m.ok THEN methods_imported \cup {method_name}
                                         ELSE methods_imported
                  /\ nextId' = nextId + 1
                  /\ faults' = IF fault = "none" THEN faults ELSE faults + 1
        ELSE UNCHANGED <<idb, methods_imported, nextId, faults>>
  /\ pos' = pos + 1
  /\ UNCHANGED <<procVars, flow, pc, err, excelVars, doc, idbDisk, imported_ids, gml_id_mapping,
                 namespaces, tests>>

\* import_spt_from_procedure: reads the drive sets and the hole reference, writes
\* nothing and returns False
import_spt_from_procedure(spt_elem, test_elem) == FALSE

\* import_atterberg_from_procedure: returns False
import_atterberg_from_procedure(atterberg_elem, test_elem) == FALSE

\* the branch import_test_from_measurement takes: which import_*_from_procedure it
\* calls, "none" when it returns without calling one
handled_as(test_element, store, nsmap) ==
  LET sampling_ref == find_element(test_element, "samplingFeatureRef", FALSE, nsmap)
      select_raises == /\ sampling_ref # NoElement
                       /\ sampling_ref.href \notin {NULL, ""}
                       /\ "_HoleInfo" \notin store.tables
      procedure == find_element(test_element, "procedure", FALSE, nsmap)
      spt_test == find_element(procedure, "DrivenPenetrationTest", FALSE, nsmap)
      atterberg_test == find_element(procedure, "AtterbergLimitsTest", FALSE, nsmap)
  IN IF select_raises \/ procedure = NoElement THEN "none"
     ELSE IF Truthy(spt_test) THEN "spt"
     ELSE IF Truthy(atterberg_test) THEN "atterberg"
     ELSE "none"

\* import_test_from_measurement: any exception is caught and gives False
import_test_from_measurement(test_element, store, nsmap) ==
  LET procedure == find_element(test_element, "procedure", FALSE, nsmap)
      spt_test == find_element(procedure, "DrivenPenetrationTest", FALSE, nsmap)
      atterberg_test == find_element(procedure, "AtterbergLimitsTest", FALSE, nsmap)
  IN CASE handled_as(test_element, store, nsmap) = "spt" ->
            import_spt_from_procedure(spt_test, test_element)
       [] handled_as(test_element, store, nsmap) = "atterberg" ->
            import_atterberg_from_procedure(atterberg_test, test_element)
       [] OTHER -> FALSE

\* import_observations, one round of `for i, measurement in enumerate(measurements)`
ImportMeasurement ==
  /\ pc = "observations"
  /\ LET measurements == findall_elements(doc.root, "measurement", FALSE, namespaces)
     IN /\ pos <= Len(measurements)
        /\ LET test == find_element(measurements[pos], "Test", FALSE, namespaces)
               procedure == find_element(test, "procedure", FALSE, namespaces)
           IN tests' =
                IF Truthy(test)
                THEN [found |-> tests.found + 1,
                      with_procedure |-> tests.with_procedure + (IF Truthy(procedure) THEN 1 ELSE 0),
                      imported |-> tests.imported
                                   + (IF import_test_from_measurement(test, idb, namespaces)
                                      THEN 1 ELSE 0)]
                ELSE tests
  /\ pos' = pos + 1
  /\ UNCHANGED <<procVars, flow, pc, err, nextId, excelVars, doc, idb, idbDisk, imported_ids,
                 gml_id_mapping, namespaces, methods_imported, faults>>

\* the phases of import_diggs_xml in call order
ImportPhases == <<"projects", "holes", "samples", "methods", "observations">>

\* the elements the loop of a phase runs over
PhaseElements(phase) ==
  CASE phase = "projects" -> findall_elements(doc.root, "Project", FALSE, namespaces)
    [] phase = "holes" -> findall_elements(doc.root, "Borehole", FALSE, namespaces)
    [] phase = "samples" -> findall_elements(doc.root, "Sample", FALSE, namespaces)
    [] phase = "methods" -> TestElements(doc.root)
    [] phase = "observations" -> findall_elements(doc.root, "measurement", FALSE, namespaces)

\* the loop of a phase is exhausted: the next import_* call (import_investigation_targets
\* only counts elements), or the end of the phases
NextPhase ==
  /\ \E i \in 1..Len(ImportPhases) :
       /\ pc = ImportPhases[i]
       /\ pos > Len(PhaseElements(pc))
       /\ pc' = IF i < Len(ImportPhases) THEN ImportPhases[i + 1] ELSE "xml_commit"
  /\ pos' = 1
  /\ UNCHANGED <<procVars, flow, err, nextId, excelVars, doc, idb, idbDisk, imported_ids, gml_id_mapping,
                 namespaces, methods_imported, tests, faults>>

\* self.conn.commit(); print_import_summary()
CommitImport ==
  /\ pc = "xml_commit"
  /\ idbDisk' = idb
  /\ pc' = "xml_done"
  /\ UNCHANGED <<procVars, flow, err, nextId, excelVars, doc, idb, imported_ids, gml_id_mapping,
                 namespaces, methods_imported, tests, pos, faults>>

\* DiggsToSQLiteImporter.__init__
NewImporter ==
  /\ imported_ids = [projects |-> {}, holes |-> {}, samples |-> {}, tests |-> {}]
  /\ gml_id_mapping = [projects |-> <<>>, holes |-> <<>>, samples |-> <<>>]
  /\ namespaces = DefaultNamespaces
  /\ methods_imported = {}
  /\ tests = [found |-> 0, with_procedure |-> 0, imported |-> 0]
  /\ pos = 1
  /\ faults = 0

\* a store whose tables were created beforehand (by the schema script or a mapper run)
SchemaStore == CreateTables(EmptyStore, AllTables)

\* no spreadsheet mapper runs
NoWorkbook ==
  /\ variant = "none"
  /\ db = EmptyStore
  /\ dbDisk = EmptyStore
  /\ ids = EmptyIds
  /\ rowsRead = 0
  /\ lastRow = NoRow

----------------------------------------------------------------------------
(* bin/sqlite_to_diggs_converter.py.  The file it writes is carried as the element    *)
(* tree ElementTree reads back from it: every element without a prefix is in the      *)
(* default namespace of the root, references are gml:href attributes.                 *)

\* `if value:` on a column value: None, '' and zero are false
PyTruthy(value) == value \notin {NULL, "", "0", "0.0"}

\* str.replace of &, <, > by their entities, on the texts the bounded stores hold
XmlEscape(text) ==
  CASE text = "A&B" -> "A&amp;B"
    [] text = "a<b" -> "a&lt;b"
    [] text = "x>y" -> "x&gt;y"
    [] text = "<&>" -> "&lt;&amp;&gt;"
    [] OTHER -> text

\* what the XML parser gives back for character data: entities resolved, None for no text
ParsedText(text) ==
  CASE text = "" -> NULL
    [] text = "A&amp;B" -> "A&B"
    [] text = "a&lt;b" -> "a<b"
    [] text = "x&gt;y" -> "x>y"
    [] text = "&lt;&amp;&gt;" -> "<&>"
    [] OTHER -> text

\* DiggsCompliantXMLGenerator.safe_text(value)
generator_safe_text(value) == IF value = NULL THEN "" ELSE XmlEscape(value)

\* self.valid_hammer_types
valid_hammer_types == {"automatic", "manual", "cathead", "trip", "safety", "donut"}

\* str.lower() on the hammer types the bounded stores hold and on the factory and
\* processor types handed to the factories
Lower(text) ==
  CASE text = "Automatic" -> "automatic"
    [] text = "EXCEL" -> "excel"
    [] text = "Diggs" -> "diggs"
    [] text = "Converter" -> "converter"
    [] text = "IMPORTER" -> "importer"
    [] text = "Template" -> "template"
    [] text \in {"Manual", "MANUAL"} -> "manual"
    [] text = "Safety" -> "safety"
    [] text = "Trip" -> "trip"
    [] text = "Hydraulic" -> "hydraulic"
    [] OTHER -> text

\* the validation left out: the stored hammer type goes through
keep_hammer_type(hammer_type) == hammer_type

\* validate_hammer_type(hammer_type): lower-cased when in the code list, else 'automatic'
validate_hammer_type(hammer_type) ==
  IF ~PyTruthy(hammer_type) THEN "automatic"
  ELSE IF Lower(hammer_type) \in valid_hammer_types THEN Lower(hammer_type)
  ELSE "automatic"

\* blow_count < 0, on the literals the bounded stores hold
IsNegative(value) == value \in {"-1", "-5", "-1.0"}

\* the validation left out: the stored value goes through
keep_blow_count(blow_count) == blow_count

\* validate_blow_count(blow_count)
validate_blow_count(blow_count) ==
  IF blow_count = NULL \/ IsNegative(blow_count) THEN NULL ELSE blow_count

\* an element of the written file holding text, as the markup carries it
Written(tag, text) == Leaf(tag, DiggsNS, text)

\* character data the parser refuses: a raw '&' or '<'
NotWellFormed(text) == text \in {"A&B", "a<b", "<&>"}

\* the written file as ElementTree reads it back: every text parsed
RECURSIVE ParsedTree(_)
ParsedTree(e) ==
  [e EXCEPT !.text = IF @ = NULL THEN NULL ELSE ParsedText(@),
            !.kids = [i \in 1..Len(e.kids) |-> ParsedTree(e.kids[i])]]

\* row[name] for the columns the bounded rows do not all carry: such a column is NULL
Col(row, name) == IF name \in DOMAIN row THEN row[name] ELSE NULL

\* f"{value}": None is written as the word None
Formatted(value) == IF value = NULL THEN "None" ELSE value

\* a hyperlink that names the kind of the target instead of its local ID
kind_reference(tag, target) == Elem(tag, DiggsNS, NULL, NULL, "#" \o tag, NULL, <<>>)

\* <tag gml:href="#target" />
Reference(tag, target) == Elem(tag, DiggsNS, NULL, NULL, "#" \o target, NULL, <<>>)

RECURSIVE Concat(_)
Concat(seqs) == IF seqs = <<>> THEN <<>> ELSE Head(seqs) \o Concat(Tail(seqs))

\* SELECT * FROM t WHERE col = value (a NULL value matches no row)
SelectWhere(store, t, col, value) ==
  LET hit(r) == value # NULL /\ r[col] = value
  IN IF t \in store.tables THEN SelectSeq(store.rows[t], hit) ELSE <<>>

\* LEFT JOIN parent ON child.col = parent.col: the parent's field, NULL without a parent
Joined(store, t, col, value, field) ==
  LET rows == SelectWhere(store, t, col, value)
  IN IF rows = <<>> THEN NULL ELSE Col(rows[1], field)

\* the <testMethod> block of an Atterberg test: only for a known, named method
AtterbergMethodXml(store, method_id) ==
  LET name == Joined(store, "TestMethod", "Method_ID", method_id, "methodName")
      body == Joined(store, "TestMethod", "Method_ID", method_id, "governingBody")
  IN IF PyTruthy(name)
     THEN <<Node("testMethod", DiggsNS,
                 <<Written("name", generator_safe_text(name))>>
                 \o (IF PyTruthy(body) THEN <<Written("standard", generator_safe_text(body))>>
                     ELSE <<>>))>>
     ELSE <<>>

\* one <observation> holding a diggs_geo:AtterbergLimitsTest
AtterbergObservationXml(store, hole_id, sample_id, atterberg, k) ==
  Elem("observation", DiggsNS, "obs_atterberg_" \o atterberg.Sample_ID \o "_" \o ToString(k),
       NULL, NULL, NULL,
       <<Reference("sample", sample_id), Reference("samplingFeature", hole_id),
         Written("name", "Atterberg Limits Test Observation"),
         Elem("AtterbergLimitsTest", GeoNS,
              "atterberg_" \o atterberg.Sample_ID \o "_" \o ToString(k), NULL, NULL, NULL,
              AtterbergMethodXml(store, atterberg.Method_ID)
              \o <<Node("testResults", DiggsNS,
                        (IF atterberg.plasticLimit # NULL
                         THEN <<Written("plasticLimit", atterberg.plasticLimit)>> ELSE <<>>)
                        \o (IF atterberg.liquidLimit # NULL
                            THEN <<Written("liquidLimit", atterberg.liquidLimit)>> ELSE <<>>)
                        \o (IF atterberg.plasticityIndex # NULL
                            THEN <<Written("plasticityIndex", atterberg.plasticityIndex)>>
                            ELSE <<>>))>>)>>)

\* <tag>value</tag> under `if row[column]:`, nothing when the value is false
IfTruthy(tag, value) == IF PyTruthy(value) THEN <<Written(tag, value)>> ELSE <<>>

\* one <increment> of an SPT test, or nothing when the validated blow count is None
IncrementXml(i, value, penetration) ==
  IF validate_blow_count(value) # NULL
  THEN <<Node("increment", DiggsNS,
              <<Written("incrementNumber", ToString(i)),
                Written("blowCount", validate_blow_count(value))>>
              \o (IF penetration # NULL /\ ~IsNegative(penetration) /\ PyTruthy(penetration)
                  THEN <<Written("penetration", penetration)>> ELSE <<>>))>>
  ELSE <<>>

\* one <observation> holding a diggs_geo:DrivenPenetrationTest
SptObservationXml(store, hole_id, sample_id, spt, k) ==
  LET body == Joined(store, "TestMethod", "Method_ID", spt.Method_ID, "governingBody")
  IN Elem("observation", DiggsNS, "obs_spt_" \o spt.Sample_ID \o "_" \o ToString(k),
          NULL, NULL, NULL,
          <<Reference("sample", sample_id), Reference("samplingFeature", hole_id),
            Written("name", "Standard Penetration Test Observation"),
            Elem("DrivenPenetrationTest", GeoNS,
                 "spt_" \o spt.Sample_ID \o "_" \o ToString(k), NULL, NULL, NULL,
                 <<Node("testMethod", DiggsNS,
                        <<Written("name", "Standard Penetration Test"),
                          Written("standard", IF PyTruthy(body) THEN generator_safe_text(body)
                                              ELSE "ASTM D1586")>>),
                   Node("testDetails", DiggsNS,
                        IfTruthy("samplerLength", Col(spt, "samplerLength"))
                        \o IfTruthy("samplerDiameter", Col(spt, "samplerInternalDiameter"))),
                   Node("penetrationIncrements", DiggsNS,
                        IncrementXml(1, spt.blowCount_index1, Col(spt, "penetration_index1"))
                        \o IncrementXml(2, spt.blowCount_index2, Col(spt, "penetration_index2"))
                        \o IncrementXml(3, spt.blowCount_index3, Col(spt, "penetration_index3"))
                        \o IncrementXml(4, spt.blowCount_index4, Col(spt, "penetration_index4")))>>
                 \o (IF spt.recovery # NULL /\ ~IsNegative(spt.recovery)
                     THEN <<Written("sampleRecovery", spt.recovery)>> ELSE <<>>))>>)

\* one <Sample> and the observations of its tests (Atterberg first, then SPT)
SampleXml(store, project_id, hole_id, sample_row) ==
  LET sample_id == "sample_" \o sample_row.Sample_ID
      atterberg == SelectWhere(store, "AtterbergLimits", "Sample_ID", sample_row.Sample_ID)
      spt == SelectWhere(store, "_SPT", "Sample_ID", sample_row.Sample_ID)
  IN <<Elem("Sample", DiggsNS, sample_id, NULL, NULL, NULL,
            <<Written("name", IF PyTruthy(sample_row.sampleName)
                              THEN generator_safe_text(sample_row.sampleName)
                              ELSE "Sample at " \o Formatted(sample_row.pos_topDepth) \o "-"
                                   \o Formatted(sample_row.pos_bottomDepth) \o "m")>>
            \o <<Reference("samplingFeature", hole_id),
                 Reference("samplingActivity", "sampling_activity_" \o project_id)>>
            \o (IF sample_row.pos_topDepth # NULL /\ sample_row.pos_bottomDepth # NULL
                THEN <<Node("depthInterval", DiggsNS,
                            <<Written("topDepth", sample_row.pos_topDepth),
                              Written("bottomDepth", sample_row.pos_bottomDepth)>>)>>
                ELSE <<>>)
            \o (IF PyTruthy(Col(sample_row, "sampleMethod"))
                THEN <<Written("samplingMethod",
                               generator_safe_text(Col(sample_row, "sampleMethod")))>>
                ELSE <<>>))>>
     \o [i \in 1..Len(atterberg) |->
           AtterbergObservationXml(store, hole_id, sample_id, atterberg[i], i)]
     \o [i \in 1..Len(spt) |-> SptObservationXml(store, hole_id, sample_id, spt[i], i)]

\* one <SamplingFeature> and what hangs on the hole
HoleXml(store, project_id, hole_row) ==
  LET hole_id == "hole_" \o hole_row.holeID
      rigDescription == Joined(store, "_Rig", "rigID", hole_row.rigID, "rigDescription")
      hammerType == Joined(store, "_Rig", "rigID", hole_row.rigID, "hammerType")
      hammerEfficiency == Joined(store, "_Rig", "rigID", hole_row.rigID, "hammerEfficiency")
      topLatitude == Col(hole_row, "topLatitude")
      topLongitude == Col(hole_row, "topLongitude")
      groundSurface == Col(hole_row, "groundSurface")
      samples == SelectWhere(store, "_Samples", "holeID", hole_row.holeID)
  IN <<Elem("SamplingFeature", DiggsNS, hole_id, NULL, NULL, NULL,
            <<Written("name", IF PyTruthy(hole_row.holeName)
                              THEN generator_safe_text(hole_row.holeName)
                              ELSE "Unnamed Borehole"),
              Written("description", "Borehole " \o (IF PyTruthy(hole_row.holeName)
                                                     THEN generator_safe_text(hole_row.holeName)
                                                     ELSE "location")),
              Reference("investigationTarget", "target_" \o project_id),
              Reference("samplingActivity", "sampling_activity_" \o project_id)>>
            \o (IF PyTruthy(topLatitude) /\ PyTruthy(topLongitude)
                THEN <<Node("referencePoint", DiggsNS,
                            <<Elem("Point", GmlNS, "point_" \o hole_row.holeID, NULL, NULL, NULL,
                                   <<Leaf("pos", GmlNS,
                                          topLatitude \o " " \o topLongitude
                                          \o (IF PyTruthy(groundSurface) THEN " " \o groundSurface
                                              ELSE ""))>>)>>)>>
                ELSE <<>>)
            \o <<Node("boreholeDetails", DiggsNS,
                   IfTruthy("totalDepth", hole_row.bottomDepth)
                   \o IfTruthy("diameter", Col(hole_row, "hole_diameter"))
                   \o IfTruthy("azimuth", Col(hole_row, "azimuth"))
                   \o IfTruthy("inclination", Col(hole_row, "angle"))
                   \o (IF PyTruthy(Col(hole_row, "termination"))
                       THEN <<Written("terminationReason",
                                      generator_safe_text(Col(hole_row, "termination")))>>
                       ELSE <<>>)
                   \o (IF PyTruthy(rigDescription)
                       THEN <<Node("drillingInformation", DiggsNS,
                                   <<Written("rigDescription", generator_safe_text(rigDescription))>>
                                   \o (IF PyTruthy(hammerType)
                                       THEN <<Written("hammerType", validate_hammer_type(hammerType))>>
                                       ELSE <<>>)
                                   \o IfTruthy("hammerEfficiency", hammerEfficiency))>>
                       ELSE <<>>))>>)>>
     \o Concat([i \in 1..Len(samples) |-> SampleXml(store, project_id, hole_id, samples[i])])

\* one <Project>, its <InvestigationTarget> and <samplingActivity>, then its holes
ProjectXml(store, project_row) ==
  LET project_id == project_row.Project_ID
      clientName == Joined(store, "_Client", "Client_ID", project_row.Client_ID, "clientName")
      clientContact == Joined(store, "_Client", "Client_ID", project_row.Client_ID, "clientContact")
      projectCounty == Col(project_row, "projectCounty")
      description == "Geotechnical investigation project in "
                     \o Formatted(Col(project_row, "projectState")) \o ", "
                     \o Formatted(Col(project_row, "projectCountry"))
                     \o (IF PyTruthy(projectCounty) THEN ", " \o projectCounty \o " County" ELSE "")
      holes == SelectWhere(store, "_HoleInfo", "Project_ID", project_id)
  IN <<Elem("Project", DiggsNS, "project_" \o project_id, NULL, NULL, NULL,
            <<Written("name", generator_safe_text(project_row.projectName))>>
            \o (IF PyTruthy(project_row.projectNumber)
                THEN <<Written("internalIdentifier", generator_safe_text(project_row.projectNumber))>>
                ELSE <<>>)
            \o <<Written("description", description)>>
            \o (IF PyTruthy(clientName)
                THEN <<Node("role", DiggsNS,
                            <<Written("roleName", "Client"),
                              Written("organization", generator_safe_text(clientName))>>
                            \o (IF PyTruthy(clientContact)
                                THEN <<Written("contact", generator_safe_text(clientContact))>>
                                ELSE <<>>))>>
                ELSE <<>>)),
       Elem("InvestigationTarget", DiggsNS, "target_" \o project_id, NULL, NULL, NULL,
            <<Written("name", "Site Investigation - " \o generator_safe_text(project_row.projectName))>>),
       Elem("samplingActivity", DiggsNS, "sampling_activity_" \o project_id, NULL, NULL, NULL,
            <<Written("name", "Geotechnical Sampling Activities"),
              Reference("investigationTarget", "target_" \o project_id)>>)>>
     \o Concat([i \in 1..Len(holes) |-> HoleXml(store, project_id, holes[i])])

\* generate_diggs_xml: the <Diggs> root, the document information, then every project
generate_diggs_xml(store) ==
  Elem("Diggs", DiggsNS, "diggs_document", NULL, NULL, NULL,
       <<Node("documentInformation", DiggsNS,
              <<Node("DocumentInformation", DiggsNS,
                     <<Written("documentCreator", "SQLite to DIGGS Converter v2.0")>>)>>)>>
       \o Concat([i \in 1..Len(store.rows["_Project"]) |->
                    ProjectXml(store, store.rows["_Project"][i])]))

\* the round trip: the committed store of a finished mapper run is exported, and the
\* file is handed to a new importer
ExportStore ==
  /\ flow = "roundtrip"
  /\ pc = "done"
  /\ LET written == generate_diggs_xml(dbDisk)
     IN doc' = IF \E i \in 1..Len(Descendants(written)) : NotWellFormed(Descendants(written)[i].text)
               THEN File("malformed", NoElement)
               ELSE File("ok", ParsedTree(written))
  /\ pc' = "parse"
  /\ UNCHANGED <<procVars, flow, err, nextId, excelVars, idb, idbDisk, imported_ids, gml_id_mapping,
                 namespaces, methods_imported, tests, pos, faults>>

\* no helper is called on its own
NoCall == [fn |-> "none", arg |-> <<>>, out |-> NULL]

\* worker threads the GUI may start in one session
MaxThreads == 2

\* no thread has been started (the program does not run under the GUI)
NoThread == [at |-> "none", kind |-> "none", written |-> 0]

NoGui == threads = [t \in 1..MaxThreads |-> NoThread] /\ progress = FALSE

\* the first conversion run of the process
FirstRun == run = 1 /\ call = NoCall /\ NoGui

\* no importer runs over a document
NoDocument ==
  /\ doc = File("none", NoElement)
  /\ idb = EmptyStore
  /\ idbDisk = EmptyStore
  /\ NewImporter

\* a mapper run about to start
NewWorkbook ==
  /\ variant \in {"corrected", "bin"}
  /\ pc = (IF variant = "bin" THEN "validate" ELSE "create")
  /\ db \in (IF variant = "corrected" THEN {EmptyStore, GeologyStore} ELSE {EmptyStore})
  /\ dbDisk = db
  /\ ids = EmptyIds
  /\ nextId = 0
  /\ rowsRead = 0
  /\ lastRow = NoRow
  /\ err = "none"

InitExcel ==
  /\ FirstRun
  /\ flow = "excel"
  /\ NewWorkbook
  /\ NoDocument

\* spreadsheet -> store -> XML file -> a store of the importer's own
InitRoundTrip ==
  /\ FirstRun
  /\ flow = "roundtrip"
  /\ NewWorkbook
  /\ doc = File("none", NoElement)
  /\ idb \in {EmptyStore, SchemaStore}
  /\ idbDisk = idb
  /\ NewImporter

NextExcel ==
  \/ ValidateInput
  \/ CreateDatabaseStructure
  \/ OpenWorkbook
  \/ ProjectSheetRow
  \/ TestMethodSheetRow
  \/ HoleInfoSheetRow
  \/ SamplesSheetRow
  \/ GradationSheetRow
  \/ NextSheet
  \/ CommitWorkbook

InitXml ==
  /\ FirstRun
  /\ flow = "xml"
  /\ pc = "parse"
  /\ err = "none"
  /\ nextId = 0
  /\ NoWorkbook
  /\ doc \in DiggsDocs \cup BadFiles
  /\ idb \in {EmptyStore, SchemaStore}
  /\ idbDisk = idb
  /\ NewImporter

NextXml ==
  \/ OpenDocument
  \/ CreateDatabaseIfNotExists
  \/ ImportProject
  \/ ImportBorehole
  \/ ImportSample
  \/ ImportTestMethod
  \/ ImportMeasurement
  \/ NextPhase
  \/ CommitImport

Init == InitExcel \/ InitXml \/ InitRoundTrip

Next == NextExcel \/ NextXml \/ ExportStore

Spec == Init /\ [][Next]_vars

\* the spreadsheet mapper alone
SpecExcel == InitExcel /\ [][NextExcel]_vars

\* the XML importer alone
SpecXml == InitXml /\ [][NextXml]_vars

\* an import whose db_path names no file yet: sqlite3.connect creates an empty store
InitFresh ==
  /\ InitXml
  /\ idb = EmptyStore

\* the XML importer alone, on a fresh store
SpecFresh == InitFresh /\ [][NextXml]_vars

----------------------------------------------------------------------------
(* The importer's helpers called on their own *)

\* a process that only calls a helper of the importer: no workbook, no document
HelperProcess ==
  /\ flow = "helper"
  /\ pc = "call"
  /\ err = "none"
  /\ nextId = 0
  /\ run = 1
  /\ NoGui
  /\ NoWorkbook
  /\ NoDocument

\* the result of the call is recorded; nothing else changes
Returns(fn, out) ==
  /\ call.fn = "none"
  /\ call' = [fn |-> fn, arg |-> call.arg, out |-> out]
  /\ UNCHANGED <<flow, pc, err, nextId, excelVars, xmlVars, run, guiVars>>

\* the texts an element handed to a scalar extraction may hold (NULL: no text at all)
ScalarTexts ==
  {NULL, "", " ", "  ", " 5 ", "5", "5.0", "6.5", "0", "0.0", "30.0", "abc", "inf", "-inf", "nan"}

\* the elements handed to safe_text / safe_float / safe_int: None, or a leaf
ScalarInputs ==
  {NoElement}
  \cup {Leaf(tag, ns, text) : tag \in {"topDepth", "blowCount"}, ns \in DocNamespaces,
                              text \in ScalarTexts}

InitScalar ==
  /\ HelperProcess
  /\ \E element \in ScalarInputs : call = [fn |-> "none", arg |-> element, out |-> NULL]

CallSafeText ==
  /\ flow = "helper"
  /\ Returns("safe_text", safe_text(call.arg))

CallSafeFloat ==
  /\ flow = "helper"
  /\ Returns("safe_float", safe_float(call.arg))

CallSafeInt ==
  /\ flow = "helper"
  /\ Returns("safe_int", safe_int(call.arg))

NextScalar == CallSafeText \/ CallSafeFloat \/ CallSafeInt

\* the scalar extraction functions alone
SpecScalar == InitScalar /\ [][NextScalar]_vars

----------------------------------------------------------------------------
\* the children a parent handed to find_element may hold: the name qualified by the gml,
\* the DIGGS and the development namespace, unqualified, nested one level down, and
\* another tag
FindChildren ==
  {Leaf("name", GmlNS, "a"), Leaf("name", DiggsNS, "b"), Leaf("name", NoNS, "c"),
   Node("wrap", DiggsNS, <<Leaf("name", DiggsNS, "d")>>), Leaf("other", DiggsNS, "e"),
   Leaf("name", DevNS, "f")}

\* the calls find_element / findall_elements are handed: a parent with up to two
\* children, the tag, use_gml, and self.namespaces as __init__ or the detection left it
FindInputs ==
  {[parent |-> Node("Sample", DiggsNS, kids), tag_name |-> "name", use_gml |-> g, nsmap |-> m] :
     kids \in UNION {[1..n -> FindChildren] : n \in 0..2}, g \in BOOLEAN,
     m \in {DefaultNamespaces, [DefaultNamespaces EXCEPT !.diggs = DevNS]}}

InitFind ==
  /\ HelperProcess
  /\ \E input \in FindInputs : call = [fn |-> "none", arg |-> input, out |-> NULL]

CallFindElement ==
  /\ flow = "helper"
  /\ Returns("find_element",
             find_element(call.arg.parent, call.arg.tag_name, call.arg.use_gml, call.arg.nsmap))

CallFindAllElements ==
  /\ flow = "helper"
  /\ Returns("findall_elements",
             findall_elements(call.arg.parent, call.arg.tag_name, call.arg.use_gml, call.arg.nsmap))

NextFind == CallFindElement \/ CallFindAllElements

\* the namespace-aware lookups alone
SpecFind == InitFind /\ [][NextFind]_vars

----------------------------------------------------------------------------
(* The exporter run on a store of its own *)

\* stored texts: plain, and with each XML metacharacter
StoredTexts == {"P1", "A&B", "a<b", "x>y", "<&>"}

\* one store handed to the exporter, by the values that vary: text is every free-text
\* column, place the state / country / county columns, second a second hole with a
\* sample and an SPT test of its own
BaseInput ==
  [text |-> "P1", place |-> "TX", hammer |-> "automatic", depth |-> "30.0",
   efficiency |-> "60", ground |-> "12.0", blow1 |-> "4", blow2 |-> "6",
   penetration |-> "150", recovery |-> "95.0", sampler |-> "457", second |-> FALSE]

ExportInputs ==
  {[BaseInput EXCEPT !.text = t, !.place = p] : t \in StoredTexts, p \in {NULL, "TX", "A&B"}}
  \cup {[BaseInput EXCEPT !.hammer = h, !.second = b] :
          h \in {NULL, "", "automatic", "Automatic", "MANUAL", "Safety", "Trip", "donut",
                 "Hydraulic", "rope"},
          b \in BOOLEAN}
  \cup {[BaseInput EXCEPT !.depth = d, !.efficiency = e, !.ground = g, !.sampler = g] :
          d \in {NULL, "0", "30.0"}, e \in {NULL, "0", "60"}, g \in {NULL, "0", "12.0"}}
  \cup {[BaseInput EXCEPT !.blow1 = b1, !.blow2 = b2, !.recovery = r, !.penetration = q] :
          b1 \in {NULL, "0", "4", "-1"}, b2 \in {"6", "-5"}, r \in {NULL, "0", "95.0", "-1"},
          q \in {NULL, "150"}}

\* the rows hanging on hole number k of the store
HoleRows(x, k) ==
  [hole |-> [holeID |-> "HOLE_" \o k, rigID |-> "RIG_1", Project_ID |-> "PROJ_1",
             holeName |-> x.text, bottomDepth |-> x.depth, hole_diameter |-> x.depth,
             azimuth |-> x.ground, angle |-> x.ground, termination |-> x.text,
             topLatitude |-> "29.7", topLongitude |-> "-95.3", groundSurface |-> x.ground],
   sample |-> [Sample_ID |-> "SAMPLE_" \o k, holeID |-> "HOLE_" \o k, sampleName |-> x.text,
               pos_topDepth |-> "5.0", pos_bottomDepth |-> "6.5", sampleMethod |-> x.text],
   spt |-> [Sample_ID |-> "SAMPLE_" \o k, Method_ID |-> "METHOD_1",
            blowCount_index1 |-> x.blow1, blowCount_index2 |-> x.blow2,
            blowCount_index3 |-> "8", blowCount_index4 |-> NULL,
            penetration_index1 |-> x.penetration, penetration_index2 |-> x.penetration,
            penetration_index3 |-> "0", penetration_index4 |-> NULL,
            samplerLength |-> x.sampler, samplerInternalDiameter |-> x.sampler,
            recovery |-> x.recovery],
   atterberg |-> [Sample_ID |-> "SAMPLE_" \o k, Method_ID |-> "METHOD_1",
                  plasticLimit |-> "18", liquidLimit |-> "42", plasticityIndex |-> "0"]]

\* the store of an input: one client, project, rig and method, one or two holes
StoreOf(x) ==
  LET holes == IF x.second THEN <<HoleRows(x, "1"), HoleRows(x, "2")>> ELSE <<HoleRows(x, "1")>>
      all(part) == [i \in 1..Len(holes) |-> holes[i][part]]
  IN [tables |-> AllTables,
      rows |-> [EmptyRows EXCEPT
        !["_Client"] = <<[Client_ID |-> "CLIENT_1", clientName |-> x.text,
                          clientContact |-> x.text]>>,
        !["_Project"] = <<[Project_ID |-> "PROJ_1", Client_ID |-> "CLIENT_1",
                           projectName |-> x.text, projectNumber |-> x.text,
                           projectState |-> x.place, projectCountry |-> x.place,
                           projectCounty |-> x.place]>>,
        !["_Rig"] = <<[rigID |-> "RIG_1", rigDescription |-> x.text, hammerType |-> x.hammer,
                       hammerEfficiency |-> x.efficiency]>>,
        !["TestMethod"] = <<[Method_ID |-> "METHOD_1", methodName |-> x.text,
                             governingBody |-> x.text]>>,
        !["_HoleInfo"] = all("hole"),
        !["_Samples"] = all("sample"),
        !["_SPT"] = all("spt"),
        !["AtterbergLimits"] = all("atterberg")]]

\* sqlite_to_diggs_converter.main: a generator over an existing store
InitExport ==
  /\ FirstRun
  /\ flow = "export"
  /\ pc = "export"
  /\ err = "none"
  /\ nextId = 0
  /\ variant = "none"
  /\ \E x \in ExportInputs : db = StoreOf(x)
  /\ dbDisk = db
  /\ ids = EmptyIds
  /\ rowsRead = 0
  /\ lastRow = NoRow
  /\ NoDocument

\* generate_diggs_xml(output_path): the file is written as the markup carries it
GenerateDiggsXml ==
  /\ flow = "export"
  /\ pc = "export"
  /\ doc' = File("written", generate_diggs_xml(dbDisk))
  /\ pc' = "exported"
  /\ UNCHANGED <<procVars, flow, err, nextId, excelVars, idb, idbDisk, imported_ids,
                 gml_id_mapping, namespaces, methods_imported, tests, pos, faults>>

\* the exporter alone
SpecExport == InitExport /\ [][GenerateDiggsXml]_vars

----------------------------------------------------------------------------
(* The identifier generator with its uuid as the random draw it is *)

\* calls of generate_id in one run
MaxIds == 3

\* str(uuid.uuid4())[:8]: eight hexadecimal digits of a random uuid, any of them at any
\* call
UuidHeads == {"1a2b3c4d", "5e6f7a8b", "9c0d1e2f"}

\* the entity-type prefixes the callers pass
IdPrefixes == {"PROJ_", "HOLE_", "SAMPLE_"}

\* the start of a run: no identifier issued yet
InitIds ==
  /\ HelperProcess
  /\ call = [fn |-> "none", arg |-> <<>>, out |-> NULL]

\* generate_id(prefix): the prefix and the head of a fresh uuid; what was issued before is
\* not looked at.  call.arg keeps the values issued so far in the run.
GenerateId ==
  /\ flow = "helper"
  /\ call.fn \in {"none", "generate_id"}
  /\ Len(call.arg) < MaxIds
  /\ \E prefix \in IdPrefixes, head \in UuidHeads :
       call' = [fn |-> "generate_id", arg |-> Append(call.arg, prefix \o head),
                out |-> prefix \o head]
  /\ UNCHANGED <<flow, pc, err, nextId, excelVars, xmlVars, run, guiVars>>

\* the identifier generator alone
SpecIds == InitIds /\ [][GenerateId]_vars

----------------------------------------------------------------------------
(* Several import runs in one process, over one store *)

\* import runs in one process
MaxRuns == 2

\* the documents handed to the runs: a project, a hole, its sample and an SPT test under
\* each root namespace, a lone project, and a path that names no file
RunDocs ==
  {File("ok", Node("Diggs", ns, <<ProjectElem(ns, "p1"), BoreholeElem(ns, "b1", "#p1", FALSE),
                                  SampleElem(ns, "s1", "#b1"),
                                  MeasurementElem(ns, "spt")>>)) : ns \in DocNamespaces}
  \cup {File("ok", Node("Diggs", NoNS, <<ProjectElem(NoNS, "p2")>>)),
        File("missing", NoElement)}

\* the lookup state of the importer object at hand
LookupState ==
  [imported_ids |-> imported_ids, gml_id_mapping |-> gml_id_mapping,
   namespaces |-> namespaces, methods_imported |-> methods_imported]

\* the importer of the run before used again
same_importer(previous) == previous

\* importer = DiggsToSQLiteImporter(target_path): every run constructs an importer of
\* its own, whatever the importer of the run before holds
importer_for_run(previous) ==
  [imported_ids |-> [projects |-> {}, holes |-> {}, samples |-> {}, tests |-> {}],
   gml_id_mapping |-> [projects |-> <<>>, holes |-> <<>>, samples |-> <<>>],
   namespaces |-> DefaultNamespaces,
   methods_imported |-> {}]

InitRuns ==
  /\ FirstRun
  /\ flow = "xml"
  /\ pc = "parse"
  /\ err = "none"
  /\ nextId = 0
  /\ NoWorkbook
  /\ doc \in RunDocs
  /\ idb = SchemaStore
  /\ idbDisk = idb
  /\ NewImporter

\* import_data called again after a run has ended: a new connection to the same store,
\* a new importer, the next document
NextRun ==
  /\ flow = "xml"
  /\ pc \in {"xml_done", "aborted"}
  /\ run < MaxRuns
  /\ run' = run + 1
  /\ doc' \in RunDocs
  /\ LET importer == importer_for_run(LookupState)
     IN /\ imported_ids' = importer.imported_ids
        /\ gml_id_mapping' = importer.gml_id_mapping
        /\ namespaces' = importer.namespaces
        /\ methods_imported' = importer.methods_imported
  /\ tests' = [found |-> 0, with_procedure |-> 0, imported |-> 0]
  /\ pos' = 1
  /\ faults' = 0
  /\ idb' = idbDisk
  /\ pc' = "parse"
  /\ err' = "none"
  /\ UNCHANGED <<flow, nextId, excelVars, idbDisk, call, guiVars>>

NextRuns == NextXml \/ NextRun

\* the XML importer run again and again
SpecRuns == InitRuns /\ [][NextRuns]_vars

----------------------------------------------------------------------------
(* executable/src/processor_factories.py and diggs_processor_manager.py *)

ValueError == "raise ValueError"

\* the `processors` dictionary of ExcelProcessorFactory.create_processor
excel_processors ==
  [p \in {"converter", "excel_to_sqlite", "template_generator", "template"} |->
     IF p \in {"converter", "excel_to_sqlite"} THEN "ExcelToSQLiteConverter"
     ELSE "ExcelTemplateGenerator"]

\* the `processors` dictionary of DiggsProcessorFactory.create_processor
diggs_processors ==
  [p \in {"converter", "sqlite_to_diggs", "importer", "diggs_to_sqlite"} |->
     IF p \in {"converter", "sqlite_to_diggs"} THEN "SQLiteToDiggsConverter"
     ELSE "DiggsToSQLiteImporter"]

\* get_available_processors of the two factories: the advertised processor types
get_available_processors(factory) ==
  IF factory = "excel"
  THEN {"converter", "excel_to_sqlite", "template_generator", "template"}
  ELSE {"converter", "sqlite_to_diggs", "importer", "diggs_to_sqlite"}

\* the dictionary looked up with the type as it was passed
create_without_lower(processors, processor_type) ==
  IF processor_type \notin DOMAIN processors THEN ValueError
  ELSE processors[processor_type]

\* <Factory>.create_processor(processor_type, config): processor_class(config), a new
\* object at every call (carried as the name of its class), or ValueError for a type the
\* dictionary does not hold
factory_create_processor(processors, processor_type) ==
  IF Lower(processor_type) \notin DOMAIN processors THEN ValueError
  ELSE processors[Lower(processor_type)]

\* DataProcessorFactoryManager.get_factory(factory_type)
get_factory(factory_type) ==
  IF Lower(factory_type) \notin {"excel", "diggs"} THEN ValueError
  ELSE Lower(factory_type)

\* DataProcessorFactoryManager.create_processor(factory_type, processor_type, config)
create_processor(factory_type, processor_type) ==
  LET factory == get_factory(factory_type)
  IN IF factory = ValueError THEN ValueError
     ELSE factory_create_processor(IF factory = "excel" THEN excel_processors
                                   ELSE diggs_processors, processor_type)

\* DiggsProcessorManager.process_data: whatever create_processor or process raises is
\* caught and gives False; success is what processor.process returns
process_data(factory_type, processor_type, success) ==
  IF create_processor(factory_type, processor_type) = ValueError THEN "False" ELSE success

\* the factory and processor types handed in: advertised, in another case, unknown
FactoryInputs ==
  {<<f, p>> : f \in {"excel", "diggs", "EXCEL", "Diggs", "sqlite", ""},
              p \in {"converter", "excel_to_sqlite", "template_generator", "template",
                     "sqlite_to_diggs", "importer", "diggs_to_sqlite", "Converter",
                     "IMPORTER", "Template", "exporter", ""}}

InitFactory ==
  /\ HelperProcess
  /\ \E input \in FactoryInputs : call = [fn |-> "none", arg |-> input, out |-> NULL]

CallCreateProcessor ==
  /\ flow = "helper"
  /\ Returns("create_processor", create_processor(call.arg[1], call.arg[2]))

CallProcessData ==
  /\ flow = "helper"
  /\ \E success \in {"True", "False"} :
       Returns("process_data", process_data(call.arg[1], call.arg[2], success))

NextFactory == CallCreateProcessor \/ CallProcessData

\* the factories and the manager alone
SpecFactory == InitFactory /\ [][NextFactory]_vars

----------------------------------------------------------------------------
(* import_test_from_measurement called on its own *)

\* the test-type elements a procedure wrapper may hold: with and without children
ProcedureChildren(ns) ==
  {Node("DrivenPenetrationTest", ns, <<TestMethodElem(ns, "SPT")>>),
   Node("DrivenPenetrationTest", ns, <<>>),
   Node("AtterbergLimitsTest", ns, <<TestMethodElem(ns, "Atterberg")>>),
   Node("AtterbergLimitsTest", ns, <<>>),
   Node("ConsolidationTest", ns, <<TestMethodElem(ns, "Consolidation")>>)}

\* the Test elements handed in: without procedure, or with a procedure of up to two
\* test-type elements; with or without a reference to a hole
ClassifyInputs ==
  UNION {{[test |-> Node("Test", ns, <<Leaf("name", GmlNS, "T-1")>> \o ref \o proc),
           store |-> store, nsmap |-> DefaultNamespaces] :
            store \in {EmptyStore, SchemaStore},
            ref \in {<<>>, <<Elem("samplingFeatureRef", ns, NULL, "#b1", NULL, NULL, <<>>)>>},
            proc \in {<<>>} \cup {<<Node("procedure", ns, kids)>> :
                                    kids \in UNION {[1..n -> ProcedureChildren(ns)] : n \in 0..2}}} :
         ns \in {DiggsNS, NoNS}}

InitClassify ==
  /\ HelperProcess
  /\ \E input \in ClassifyInputs : call = [fn |-> "none", arg |-> input, out |-> NULL]

\* import_test_from_measurement(test): the branch taken and the value returned
CallImportTestFromMeasurement ==
  /\ flow = "helper"
  /\ Returns("import_test_from_measurement",
             [handled |-> handled_as(call.arg.test, call.arg.store, call.arg.nsmap),
              imported |-> import_test_from_measurement(call.arg.test, call.arg.store,
                                                        call.arg.nsmap)])

\* the classification of tests alone
SpecClassify == InitClassify /\ [][CallImportTestFromMeasurement]_vars

-----------------------------------------------------------------------------
(* executable/diggs_processor_gui_final.py: the buttons and their worker threads *)

\* the buttons whose command ends in run_in_thread(worker)
ButtonKinds == {"generate_template", "convert_excel_to_sqlite", "export_to_diggs", "import_diggs"}

\* the writes one conversion makes to its store or output file
MaxWrites == 2

\* the GUI alone: the main loop waits for clicks, no thread has been started
InitGui ==
  /\ flow = "gui"
  /\ pc = "mainloop"
  /\ err = "none"
  /\ nextId = 0
  /\ FirstRun
  /\ NoWorkbook
  /\ NoDocument

\* a button is clicked: run_in_thread builds threading.Thread(target=worker, daemon=True)
\* and starts it.  No button is disabled and no flag is tested: the main loop takes the
\* click whatever the earlier workers are doing.
ClickButton ==
  /\ flow = "gui"
  /\ \E kind \in ButtonKinds, t \in 1..MaxThreads :
       /\ threads[t].at = "none"
       /\ \A u \in 1..t - 1 : threads[u].at # "none"
       /\ threads' = [threads EXCEPT ![t] = [at |-> "started", kind |-> kind, written |-> 0]]
  /\ UNCHANGED <<flow, pc, err, nextId, excelVars, xmlVars, run, call, progress>>

\* worker(): self.start_progress(), then func(*args, **kwargs) is entered
WorkerStart ==
  /\ flow = "gui"
  /\ \E t \in 1..MaxThreads :
       /\ threads[t].at = "started"
       /\ threads' = [threads EXCEPT ![t].at = "func"]
  /\ progress' = TRUE
  /\ UNCHANGED <<flow, pc, err, nextId, excelVars, xmlVars, run, call>>

\* func is running: the conversion writes to its store or output file
WorkerWrite ==
  /\ flow = "gui"
  /\ \E t \in 1..MaxThreads :
       /\ threads[t].at = "func"
       /\ threads[t].written < MaxWrites
       /\ threads' = [threads EXCEPT ![t].written = @ + 1]
  /\ UNCHANGED <<flow, pc, err, nextId, excelVars, xmlVars, run, call, progress>>

\* func returns or raises (at once when no input path was chosen); finally:
\* self.stop_progress()
WorkerEnd ==
  /\ flow = "gui"
  /\ \E t \in 1..MaxThreads :
       /\ threads[t].at = "func"
       /\ threads' = [threads EXCEPT ![t].at = "ended"]
  /\ progress' = FALSE
  /\ UNCHANGED <<flow, pc, err, nextId, excelVars, xmlVars, run, call>>

NextGui == ClickButton \/ WorkerStart \/ WorkerWrite \/ WorkerEnd

\* a GUI session
SpecGui == InitGui /\ [][NextGui]_vars

-----------------------------------------------------------------------------
(* the mapper's sample lookup dictionary alone *)

\* f"{safe_get(row, 'Hole Name', '')}_{safe_get(row, 'Sample Name', '')}"
sample_key(hole_name, sample_name) == safe_get(hole_name, "") \o "_" \o safe_get(sample_name, "")

\* the names a Hole Name, Sample Name, Boring or Sample cell may hold (NaN: empty cell)
KeyNames == {NaN, "B", "B_1", "S", "1_S"}

\* Samples rows read in one run of the dictionary alone
MaxKeyRows == 2

\* sample_ids = {}; no Samples row has been read
InitKeys ==
  /\ flow = "keys"
  /\ pc = "Samples"
  /\ err = "none"
  /\ nextId = 0
  /\ FirstRun
  /\ NoWorkbook
  /\ NoDocument

\* Samples sheet, one row: sample_id = generate_id("SAMPLE_"); sample_ids[sample_key] =
\* sample_id.  call.arg lists the rows read: the key generated and the two names.
RegisterSample ==
  /\ flow = "keys"
  /\ pc = "Samples"
  /\ rowsRead < MaxKeyRows
  /\ \E hole_name \in KeyNames, sample_name \in KeyNames :
       LET sample_id == generate_id("SAMPLE_", nextId + 1)
       IN /\ ids' = [ids EXCEPT !.sample_ids = DictPut(@, sample_key(hole_name, sample_name), sample_id)]
          /\ call' = [call EXCEPT !.arg = Append(@, [Sample_ID |-> sample_id, HoleName |-> hole_name,
                                                     SampleName |-> sample_name])]
  /\ nextId' = nextId + 1
  /\ rowsRead' = rowsRead + 1
  /\ UNCHANGED <<flow, pc, err, variant, db, dbDisk, lastRow, xmlVars, run, guiVars>>

\* a row of a later sheet (Gradation, RockCoring): sample_id = sample_ids.get(sample_key)
ResolveSample ==
  /\ flow = "keys"
  /\ pc = "Samples"
  /\ \E boring \in KeyNames, sample \in KeyNames :
       call' = [call EXCEPT !.fn = "sample_ids.get",
                            !.out = [Boring |-> boring, Sample |-> sample,
                                     Sample_ID |-> DictGet(ids.sample_ids, sample_key(boring, sample))]]
  /\ pc' = "Gradation"
  /\ UNCHANGED <<flow, err, nextId, excelVars, xmlVars, run, guiVars>>

NextKeys == RegisterSample \/ ResolveSample

\* the sample dictionary of one mapper run
SpecKeys == InitKeys /\ [][NextKeys]_vars

-----------------------------------------------------------------------------
(* documents whose elements carry no gml:id *)

\* documents whose Project, Borehole and Sample elements have a gml:id or none
NoIdDocsIn(ns) ==
  UNION {{File("ok", Node("Diggs", ns, p \o b \o s \o m)) :
            p \in [1..c[1] -> {ProjectElem(ns, id) : id \in {NULL, "p1"}}],
            b \in [1..c[2] -> {BoreholeElem(ns, id, "#p1", FALSE) : id \in {NULL, "b1"}}],
            s \in [1..c[3] -> {SampleElem(ns, id, "#b1") : id \in {NULL, "s1"}}],
            m \in [1..c[4] -> {MeasurementElem(ns, "spt")}]} :
         c \in ElemCounts}

NoIdDocs == NoIdDocsIn(DiggsNS) \cup NoIdDocsIn(NoNS)

\* an import of such a document into a store whose tables exist
InitNoId ==
  /\ FirstRun
  /\ flow = "xml"
  /\ pc = "parse"
  /\ err = "none"
  /\ nextId = 0
  /\ NoWorkbook
  /\ doc \in NoIdDocs
  /\ idb = SchemaStore
  /\ idbDisk = idb
  /\ NewImporter

SpecNoId == InitNoId /\ [][NextXml]_vars

-----------------------------------------------------------------------------
(* stores whose rows lack a parent key *)

\* which rows of the first hole's chain have a null parent key
OrphanChoices == [hole : BOOLEAN, sample : BOOLEAN, spt : BOOLEAN, atterberg : BOOLEAN]

NullIf(orphan, key) == IF orphan THEN NULL ELSE key

\* the store of an input with the parent keys of the first chain set to null as chosen
\* (every foreign-key column is nullable)
OrphanStore(x, o) ==
  LET s == StoreOf(x)
  IN [s EXCEPT
        !.rows["_HoleInfo"][1].Project_ID = NullIf(o.hole, @),
        !.rows["_Samples"][1].holeID = NullIf(o.sample, @),
        !.rows["_SPT"][1].Sample_ID = NullIf(o.spt, @),
        !.rows["AtterbergLimits"][1].Sample_ID = NullIf(o.atterberg, @)]

\* a generator over a store that may hold rows without parent key
InitOrphans ==
  /\ FirstRun
  /\ flow = "export"
  /\ pc = "export"
  /\ err = "none"
  /\ nextId = 0
  /\ variant = "none"
  /\ \E t \in StoredTexts, b \in BOOLEAN, o \in OrphanChoices :
       db = OrphanStore([BaseInput EXCEPT !.text = t, !.second = b], o)
  /\ dbDisk = db
  /\ ids = EmptyIds
  /\ rowsRead = 0
  /\ lastRow = NoRow
  /\ NoDocument

SpecOrphans == InitOrphans /\ [][GenerateDiggsXml]_vars

-----------------------------------------------------------------------------
(* Properties *)

\* every non-null foreign-key value of the store names a row of the referenced table
ReferencesResolve(store) ==
  \A t \in AllTables : \A r \in RowsOf(store, t) : \A fk \in ForeignKeys(t) :
    r[fk.col] # NULL => r[fk.col] \in Keys(store, fk.ref, fk.refcol)

\* the mapper run is over
MapperEnded == pc \in {"done", "aborted", "rejected"}

\* the importer run is over
ImporterEnded == pc \in {"xml_done", "aborted"}

\* C1: at the end of an import run, spreadsheet -> store or XML -> store, every non-null
\* foreign key the run wrote equals the primary key of a row present in the referenced
\* table, in what the connection sees and in what is committed.
C1_ReferencesResolveAtEnd ==
  /\ MapperEnded => ReferencesResolve(db) /\ ReferencesResolve(dbDisk)
  /\ ImporterEnded => ReferencesResolve(idb) /\ ReferencesResolve(idbDisk)

\* a finished corrected-mapper run that committed a field soil description naming a
\* Geology_Library row, on a sample of a known hole
C1_Witness ==
  /\ pc = "done"
  /\ \E r \in RowsOf(dbDisk, "fieldSoilDesc") : r.Geo_ID # NULL
  /\ \E r \in RowsOf(dbDisk, "_Samples") : r.holeID # NULL

\* C2: within one run a surrogate key is generated once per natural key: two rows of a
\* table that carry the same natural key (holeName, methodName, project name and
\* number; the method name of test elements) are one row with one key.
C2_OneKeyPerNaturalKey ==
  /\ \A r1, r2 \in RowsOf(db, "_HoleInfo") : r1.holeName = r2.holeName => r1.holeID = r2.holeID
  /\ \A r1, r2 \in RowsOf(db, "TestMethod") :
       r1.methodName = r2.methodName => r1.Method_ID = r2.Method_ID
  /\ \A r1, r2 \in RowsOf(db, "_Project") :
       r1.projectName = r2.projectName /\ r1.projectNumber = r2.projectNumber
       => r1.Project_ID = r2.Project_ID
  /\ \A r1, r2 \in RowsOf(idb, "TestMethod") :
       r1.methodName = r2.methodName => r1.Method_ID = r2.Method_ID

\* the Samples row last read names a hole no HoleInfo row introduced (and no geology entry)
UnknownHoleRow ==
  /\ lastRow.sheet = "Samples"
  /\ isna(lastRow.cells.Geo_ID)
  /\ ~DictHas(ids.hole_ids, safe_get(lastRow.cells.HoleName, NULL))

\* the Gradation row last read names a (hole, sample) pair no Samples row introduced
UnknownSampleRow ==
  /\ lastRow.sheet = "Gradation"
  /\ ~DictHas(ids.sample_ids,
              safe_get(lastRow.cells.Boring, "") \o "_" \o safe_get(lastRow.cells.Sample, ""))

\* the mapper is between the row last read and the next one, or past the last row
AfterRow == flow = "excel" /\ pc \in {"Samples", "Gradation", "commit", "done", "aborted"}

\* C6: a spreadsheet row that names a natural key never seen is still written, with that
\* reference null, and the run is not stopped: a Samples row of an unknown hole gives a
\* _Samples row with a null hole key, a Gradation row of an unknown sample a Gradation
\* row with a null sample key.
C6_UnknownKeyWritesNullReference ==
  /\ AfterRow /\ UnknownHoleRow
     => /\ pc # "aborted"
        /\ \E r \in RowsOf(db, "_Samples") :
             r.Sample_ID = generate_id("SAMPLE_", nextId) /\ r.holeID = NULL
  /\ AfterRow /\ UnknownSampleRow
     => /\ pc # "aborted"
        /\ \E r \in RowsOf(db, "Gradation") : r.Sample_ID = NULL

\* C7: the failure of one row's insertion never aborts the conversion: whatever the
\* rows, the mapper does not end on a row's exception.
C7_RowFailureDoesNotAbort == ~(pc = "aborted" /\ err = "row")

\* C9: when the input cannot be opened or parsed as the expected container, the run
\* stops before any write: the committed store is the one the run found (no table
\* created, no row inserted).
C9_NoWriteBeforeOpenFailure ==
  pc = "aborted" /\ err \in {"open", "missing", "parse", "root"}
  => /\ dbDisk \in {EmptyStore, GeologyStore}
     /\ idbDisk \in {EmptyStore, SchemaStore}

\* the key of the sample the Samples row last read was given
LastSampleId == generate_id("SAMPLE_", nextId)

\* the row last read wrote a row for its sample into table t
WroteGroupRow(t) == \E r \in RowsOf(db, t) : r.Sample_ID = LastSampleId

\* C10: for a Samples row and each inline test group, a row is inserted into the group's
\* table if and only if at least one field of the group is non-null in the sheet row.
C10_GroupRowIffSomeField ==
  AfterRow /\ lastRow.sheet = "Samples" /\ pc # "aborted"
           /\ DictHas(ids.hole_ids, safe_get(lastRow.cells.HoleName, NULL))
  => LET cells == lastRow.cells
     IN /\ WroteGroupRow("_SPT")
           <=> (notna(cells.SPT_1) \/ notna(cells.SPT_2) \/ notna(cells.SPT_3)
                \/ notna(cells.SPT_4) \/ notna(cells.recovery))
        /\ WroteGroupRow("AtterbergLimits")
           <=> (notna(cells.PL) \/ notna(cells.LL) \/ notna(cells.PI))
        /\ variant = "corrected"
           => /\ WroteGroupRow("MoistureContent") <=> notna(cells.moistureContent)
              /\ WroteGroupRow("200wash") <=> notna(cells.passing200)
              /\ WroteGroupRow("Pocket_Pen") <=> notna(cells.pocketPenReading)
              /\ WroteGroupRow("torvane") <=> notna(cells.torvaneReading)
              /\ WroteGroupRow("fieldSoilDesc") <=> (notna(cells.Geo_ID) \/ notna(cells.color))

\* the local IDs the bounded documents use
LocalIds == {"p1", "p2", "b1", "b2", "s1", "s2"}

\* the local ID a same-document reference '#id' names
LocalId(href) == CHOOSE id \in LocalIds : "#" \o id = href

\* the Sample elements of the document, as import_samples finds them
SampleElements == findall_elements(doc.root, "Sample", FALSE, namespaces)

\* the reference a Sample element carries, NULL without one
SampleReference(sample) == find_element(sample, "samplingActivityRef", FALSE, namespaces).href

\* C3: when the '#id' reference of an imported Sample names the local ID of an imported
\* Borehole, the hole key stored in the sample's row is the surrogate key generated for
\* exactly that Borehole, however many Boreholes the document holds.
C3_ReferenceGivesReferencedParentKey ==
  flow = "xml" /\ doc.status = "ok" =>
    \A i \in 1..Len(SampleElements) :
      LET sample == SampleElements[i]
          href == SampleReference(sample)
      IN /\ \A j \in 1..Len(SampleElements) : j # i => GmlId(SampleElements[j]) # GmlId(sample)
         /\ DictHas(gml_id_mapping.samples, GmlId(sample))
         /\ StartsWithHash(href)
         /\ DictHas(gml_id_mapping.holes, LocalId(href))
         => \A r \in RowsOf(idb, "_Samples") :
              r.Sample_ID = DictGet(gml_id_mapping.samples, GmlId(sample))
              => r.holeID = DictGet(gml_id_mapping.holes, LocalId(href))

\* the distinct local IDs among the elements of a phase
DistinctIds(phase) == {GmlId(PhaseElements(phase)[i]) : i \in 1..Len(PhaseElements(phase))}

\* the element the running phase is about to handle has a local ID of the seen set
AtSeenElement ==
  /\ flow = "xml"
  /\ pc \in {"projects", "holes", "samples"}
  /\ pos <= Len(PhaseElements(pc))
  /\ GmlId(PhaseElements(pc)[pos]) \in imported_ids[pc]

\* C4: in one XML import run an element whose local ID is in the seen set of its type is
\* skipped (no row, no new key), so each distinct local ID gives at most one row of its
\* table and at most one surrogate key, however often the ID occurs in the document.
C4_SeenElementSkipped ==
  /\ [](flow = "xml" /\ doc.status = "ok" /\ pc # "parse"
        => /\ Len(idb.rows["_Project"]) <= Cardinality(DistinctIds("projects"))
           /\ Len(idb.rows["_HoleInfo"]) <= Cardinality(DistinctIds("holes"))
           /\ Len(idb.rows["_Samples"]) <= Cardinality(DistinctIds("samples"))
           /\ Len(gml_id_mapping.holes) <= Cardinality(DistinctIds("holes"))
           /\ Len(gml_id_mapping.samples) <= Cardinality(DistinctIds("samples")))
  /\ [][AtSeenElement => idb' = idb /\ nextId' = nextId /\ gml_id_mapping' = gml_id_mapping]_vars

\* a document with the same Borehole ID twice, the first imported and the second skipped
C4_Witness ==
  /\ flow = "xml"
  /\ pc = "holes"
  /\ pos = 3
  /\ GmlId(PhaseElements("holes")[1]) = GmlId(PhaseElements("holes")[2])
  /\ Len(idb.rows["_HoleInfo"]) = 1

\* an element of a phase is about to be handled
AtElement == flow = "xml" /\ pc \in {ImportPhases[i] : i \in 1..5} /\ pos <= Len(PhaseElements(pc))

\* C8: a storage failure while inserting one Project, Borehole, Sample or test element is
\* caught for that element: the run is never aborted past the parse, every element step
\* goes on to the next element of the same phase, and the run ends committed.
C8_ElementFailureCaught ==
  /\ [](flow = "xml" /\ pc = "aborted" => err \in {"missing", "parse", "root"})
  /\ [](flow = "xml" /\ pc = "xml_done" => idbDisk = idb)
  /\ [][AtElement => pc' = pc /\ pos' = pos + 1]_vars

\* a run that met a storage failure and still ended committed, with rows of later elements
C8_Witness ==
  /\ flow = "xml"
  /\ pc = "xml_done"
  /\ faults > 0
  /\ idbDisk.rows["_Samples"] # <<>>

\* the hole names a store holds
HoleNames(store) == {r.holeName : r \in RowsOf(store, "_HoleInfo")}

\* the (hole name, top depth, bottom depth) of every sample of a store
SamplePairs(store) ==
  {<<Joined(store, "_HoleInfo", "holeID", r.holeID, "holeName"), r.pos_topDepth, r.pos_bottomDepth>> :
     r \in RowsOf(store, "_Samples")}

\* the scalar results of the SPT and Atterberg rows of a store
TestValues(store) ==
  {<<r.blowCount_index1, r.blowCount_index2, r.blowCount_index3, r.blowCount_index4, r.recovery>> :
     r \in RowsOf(store, "_SPT")}
  \cup {<<r.plasticLimit, r.liquidLimit, r.plasticityIndex>> : r \in RowsOf(store, "AtterbergLimits")}

\* every hole of the store hangs on a project and every sample on a hole
FullyLinked(store) ==
  /\ \A r \in RowsOf(store, "_HoleInfo") : r.Project_ID # NULL
  /\ \A r \in RowsOf(store, "_Samples") : r.holeID # NULL

\* C5: round trip: a store produced by the spreadsheet mapper, exported and imported into
\* a store of the importer's own, gives the same hole names, the same sample (hole,
\* depth interval) pairs and the same test-result values.
C5_RoundTripPreserves ==
  flow = "roundtrip" /\ pc = "xml_done" /\ FullyLinked(dbDisk)
  => /\ HoleNames(idbDisk) = HoleNames(dbDisk)
     /\ SamplePairs(idbDisk) = SamplePairs(dbDisk)
     /\ TestValues(idbDisk) = TestValues(dbDisk)


\* the element gives no usable text: absent, no text, empty or whitespace only
NoUsableText(element) == element = NoElement \/ element.text \in {NULL, "", " ", "  "}

\* the element gives no usable number: no usable text, a malformed or a non-finite literal
NoUsableNumber(element) ==
  NoUsableText(element) \/ Strip(element.text) \in {"abc", "inf", "-inf", "nan"}

\* C11: for safe_text, safe_float and safe_int and every element state, the result is
\* never an empty string and never a raised exception, it is null whenever the element
\* gives no usable value, and safe_int of the literal '5.0' is the integer 5.
C11_ScalarNullWithoutUsableValue ==
  call.fn \in {"safe_text", "safe_float", "safe_int"}
  => /\ call.out \notin {"", OverflowError}
     /\ call.fn = "safe_text" /\ NoUsableText(call.arg) => call.out = NULL
     /\ call.fn # "safe_text" /\ NoUsableNumber(call.arg) => call.out = NULL
     /\ call.fn = "safe_int" /\ call.arg.text = "5.0" => call.out = "5"


\* the positions, in document order, of the descendants of the call's parent that carry
\* the call's tag in namespace ns
MatchesAt(ns) ==
  LET d == Descendants(call.arg.parent)
  IN {i \in 1..Len(d) : d[i].tag = call.arg.tag_name /\ d[i].ns = ns}

\* the namespace the call selects: gml when use_gml, else the DIGGS namespace in force
SelectedNamespace == IF call.arg.use_gml THEN call.arg.nsmap.gml ELSE call.arg.nsmap.diggs

\* the positions the fallback order settles on: qualified matches if any, else unqualified
SettledMatches ==
  IF MatchesAt(SelectedNamespace) # {} THEN MatchesAt(SelectedNamespace) ELSE MatchesAt(NoNS)

\* C12: find_element returns the first descendant, in document order, matched by the
\* first strategy that matches (qualified by the selected namespace, then unqualified),
\* or None; findall_elements returns all matches of that strategy in document order, an
\* empty sequence when there is none.
C12_LookupFallbackOrder ==
  LET d == Descendants(call.arg.parent)
      m == SettledMatches
  IN /\ call.fn = "find_element"
        => call.out = IF m = {} THEN NoElement
                      ELSE d[CHOOSE i \in m : \A j \in m : i <= j]
     /\ call.fn = "findall_elements"
        => /\ call.out # NULL
           /\ Len(call.out) = Cardinality(m)
           /\ \A k \in 1..Len(call.out) :
                \E i \in m : call.out[k] = d[i] /\ Cardinality({j \in m : j < i}) = k - 1

\* the first child is an unqualified name, a qualified name lies one level further down
\* and later in the document: find_element returned the qualified one
C12_Witness ==
  /\ call.fn = "find_element"
  /\ Len(call.arg.parent.kids) = 2
  /\ call.arg.parent.kids[1] = Leaf("name", NoNS, "c")
  /\ call.out = Leaf("name", DiggsNS, "d")

\* the export has run and the written file is at hand
Exported == flow = "export" /\ pc = "exported"

\* the elements of the written file, in document order
WrittenElements == Descendants(doc.root)

\* the readings the bounded stores hold that are below zero
NegativeReadings == {"-1", "-5"}

\* the DrivenPenetrationTest element written for the stored SPT row r
SptTestOf(r) ==
  LET d == WrittenElements
  IN d[CHOOSE i \in 1..Len(d) :
         d[i].tag = "DrivenPenetrationTest" /\ d[i].id = "spt_" \o r.Sample_ID \o "_1"]

\* the blow count written as increment number i of a test element, NULL without one
WrittenBlowCount(test, i) ==
  LET incs == FindAll(test, DiggsNS, "increment")
      hit == {k \in 1..Len(incs) : Find(incs[k], DiggsNS, "incrementNumber").text = ToString(i)}
  IN IF hit = {} THEN NULL ELSE Find(incs[CHOOSE k \in hit : TRUE], DiggsNS, "blowCount").text

\* what the claim lets through of a stored reading: nothing when it is null or negative
NonNegative(value) == IF value \in NegativeReadings THEN NULL ELSE value

\* C13: the exporter emits no negative blow count and no negative recovery: for every
\* stored SPT row a negative reading is written nowhere, the export still ends, and every
\* other reading of the row is written as stored.
C13_NoNegativeReadingEmitted ==
  Exported
  => /\ \A i \in 1..Len(WrittenElements) :
          WrittenElements[i].tag \in {"blowCount", "sampleRecovery"}
          => WrittenElements[i].text \notin NegativeReadings
     /\ \A r \in RowsOf(dbDisk, "_SPT") :
          /\ WrittenBlowCount(SptTestOf(r), 1) = NonNegative(r.blowCount_index1)
          /\ WrittenBlowCount(SptTestOf(r), 2) = NonNegative(r.blowCount_index2)
          /\ WrittenBlowCount(SptTestOf(r), 3) = NonNegative(r.blowCount_index3)
          /\ WrittenBlowCount(SptTestOf(r), 4) = NonNegative(r.blowCount_index4)
          /\ Find(SptTestOf(r), DiggsNS, "sampleRecovery").text = NonNegative(r.recovery)

\* a row with a negative first blow count and a negative recovery was exported, its
\* third blow count written
C13_Witness ==
  /\ Exported
  /\ \E r \in RowsOf(dbDisk, "_SPT") :
       /\ r.blowCount_index1 = "-1"
       /\ r.recovery = "-1"
       /\ WrittenBlowCount(SptTestOf(r), 3) = "8"

\* the element of the written file that carries the local ID id
WrittenById(id) ==
  LET d == WrittenElements
  IN d[CHOOSE i \in 1..Len(d) : d[i].id = id]

\* the stored hammer types of the bounded stores that differ from an allowed value by
\* letter case only, each with that allowed value
CaseVariants ==
  {<<"Automatic", "automatic">>, <<"MANUAL", "manual">>, <<"Safety", "safety">>,
   <<"Trip", "trip">>}

\* the allowed value a stored hammer type stands for, 'automatic' when it stands for none
AllowedFor(stored) ==
  IF stored \in valid_hammer_types THEN stored
  ELSE IF \E p \in CaseVariants : p[1] = stored
  THEN (CHOOSE p \in CaseVariants : p[1] = stored)[2]
  ELSE "automatic"

C15_StoredTextEscaped ==
  Exported
  => /\ \A p \in RowsOf(dbDisk, "_Project") :
          LET e == WrittenById("project_" \o p.Project_ID)
              client == Joined(dbDisk, "_Client", "Client_ID", p.Client_ID, "clientName")
          IN /\ Find(e, DiggsNS, "name").text = XmlEscape(p.projectName)
             /\ Find(e, DiggsNS, "internalIdentifier").text = XmlEscape(p.projectNumber)
             /\ Find(e, DiggsNS, "organization").text = XmlEscape(client)
             /\ Find(e, DiggsNS, "description").text
                = "Geotechnical investigation project in "
                  \o XmlEscape(Formatted(p.projectState)) \o ", "
                  \o XmlEscape(Formatted(p.projectCountry))
                  \o (IF p.projectCounty \in {NULL, ""} THEN ""
                      ELSE ", " \o XmlEscape(p.projectCounty) \o " County")
     /\ \A h \in RowsOf(dbDisk, "_HoleInfo") :
          LET e == WrittenById("hole_" \o h.holeID)
          IN /\ Find(e, DiggsNS, "name").text = XmlEscape(h.holeName)
             /\ Find(e, DiggsNS, "terminationReason").text = XmlEscape(h.termination)
     /\ \A s \in RowsOf(dbDisk, "_Samples") :
          LET e == WrittenById("sample_" \o s.Sample_ID)
          IN /\ Find(e, DiggsNS, "name").text = XmlEscape(s.sampleName)
             /\ Find(e, DiggsNS, "samplingMethod").text = XmlEscape(s.sampleMethod)

\* the hyperlink of the first tag child of the element with local ID id
LinkOf(id, tag) == Find(WrittenById(id), DiggsNS, tag).ghref

\* the hole row a stored sample hangs on
HoleOfSample(sample_id) ==
  (CHOOSE s \in RowsOf(dbDisk, "_Samples") : s.Sample_ID = sample_id).holeID

\* C16: in the written file every Sample links to the element written for its own hole,
\* every observation links to its own sample and to that sample's hole, and every
\* same-document hyperlink names the local ID of an element of the file.
C16_HyperlinksResolveToParents ==
  Exported
  => /\ \A i \in 1..Len(WrittenElements) :
          WrittenElements[i].ghref # NULL
          => \E j \in 1..Len(WrittenElements) :
               /\ WrittenElements[j].id # NULL
               /\ WrittenElements[i].ghref = "#" \o WrittenElements[j].id
     /\ \A s \in RowsOf(dbDisk, "_Samples") :
          /\ LinkOf("sample_" \o s.Sample_ID, "samplingFeature") = "#hole_" \o s.holeID
          /\ WrittenById("hole_" \o s.holeID).tag = "SamplingFeature"
     /\ \A r \in RowsOf(dbDisk, "_SPT") :
          /\ LinkOf("obs_spt_" \o r.Sample_ID \o "_1", "sample") = "#sample_" \o r.Sample_ID
          /\ LinkOf("obs_spt_" \o r.Sample_ID \o "_1", "samplingFeature")
             = "#hole_" \o HoleOfSample(r.Sample_ID)
          /\ WrittenById("sample_" \o r.Sample_ID).tag = "Sample"
     /\ \A a \in RowsOf(dbDisk, "AtterbergLimits") :
          /\ LinkOf("obs_atterberg_" \o a.Sample_ID \o "_1", "sample") = "#sample_" \o a.Sample_ID
          /\ LinkOf("obs_atterberg_" \o a.Sample_ID \o "_1", "samplingFeature")
             = "#hole_" \o HoleOfSample(a.Sample_ID)

\* a store with two holes was exported: the sample and the SPT observation of the second
\* hole link to the second hole
C16_Witness ==
  /\ Exported
  /\ Len(dbDisk.rows["_HoleInfo"]) = 2
  /\ LinkOf("sample_SAMPLE_2", "samplingFeature") = "#hole_HOLE_2"
  /\ LinkOf("obs_spt_SAMPLE_2_1", "sample") = "#sample_SAMPLE_2"
  /\ LinkOf("obs_spt_SAMPLE_2_1", "samplingFeature") = "#hole_HOLE_2"

\* the penetration written in increment number i of a test element, NULL without one
WrittenPenetration(test, i) ==
  LET incs == FindAll(test, DiggsNS, "increment")
      hit == {k \in 1..Len(incs) : Find(incs[k], DiggsNS, "incrementNumber").text = ToString(i)}
  IN IF hit = {} THEN NULL ELSE Find(incs[CHOOSE k \in hit : TRUE], DiggsNS, "penetration").text

\* C18: a numeric field is left out of the written file only when the stored value is
\* null: total depth, diameter, azimuth, inclination, ground surface, hammer efficiency,
\* sampler length and diameter and the penetration of a written increment are written as
\* stored, a stored zero as 0.
C18_ZeroIsWritten ==
  Exported
  => /\ \A h \in RowsOf(dbDisk, "_HoleInfo") :
          LET e == WrittenById("hole_" \o h.holeID)
              efficiency == Joined(dbDisk, "_Rig", "rigID", h.rigID, "hammerEfficiency")
          IN /\ Find(e, DiggsNS, "totalDepth").text = h.bottomDepth
             /\ Find(e, DiggsNS, "diameter").text = h.hole_diameter
             /\ Find(e, DiggsNS, "azimuth").text = h.azimuth
             /\ Find(e, DiggsNS, "inclination").text = h.angle
             /\ Find(e, DiggsNS, "hammerEfficiency").text = efficiency
             /\ Find(e, GmlNS, "pos").text
                = h.topLatitude \o " " \o h.topLongitude
                  \o (IF h.groundSurface = NULL THEN "" ELSE " " \o h.groundSurface)
     /\ \A r \in RowsOf(dbDisk, "_SPT") :
          /\ Find(SptTestOf(r), DiggsNS, "samplerLength").text = r.samplerLength
          /\ Find(SptTestOf(r), DiggsNS, "samplerDiameter").text = r.samplerInternalDiameter
          /\ WrittenBlowCount(SptTestOf(r), 1) # NULL
             => WrittenPenetration(SptTestOf(r), 1) = r.penetration_index1
          /\ WrittenBlowCount(SptTestOf(r), 3) # NULL
             => WrittenPenetration(SptTestOf(r), 3) = r.penetration_index3

\* C17: the identifiers issued by the calls of generate_id in one run are pairwise
\* distinct.
C17_IdsPairwiseDistinct ==
  call.fn = "generate_id"
  => \A i, j \in 1..Len(call.arg) : i # j => call.arg[i] # call.arg[j]

\* the local IDs of the tag elements of the document of the running import, in document
\* order; none for a file that is no document
DocIds(tag) ==
  IF doc.status # "ok" THEN <<>>
  ELSE LET d == Descendants(doc.root)
       IN SelectSeq([i \in 1..Len(d) |-> IF d[i].tag = tag THEN d[i].id ELSE NULL],
                    LAMBDA id : id # NULL)

\* the local IDs the loop over the tag elements has gone past in this run
PassedIds(tag, phase) ==
  LET at == CHOOSE i \in 1..Len(ImportPhases) : ImportPhases[i] = phase
      now == IF \E i \in 1..Len(ImportPhases) : ImportPhases[i] = pc
             THEN CHOOSE i \in 1..Len(ImportPhases) : ImportPhases[i] = pc
             ELSE IF pc \in {"xml_commit", "xml_done"} THEN Len(ImportPhases) + 1 ELSE 0
      all == DocIds(tag)
  IN IF now < at THEN {}
     ELSE IF now > at THEN {all[i] : i \in 1..Len(all)}
     ELSE {all[i] : i \in 1..(IF pos - 1 < Len(all) THEN pos - 1 ELSE Len(all))}

\* the keys of a dictionary
DictKeys(d) == {d[i].k : i \in 1..Len(d)}

\* C19: the lookup state is that of the running import alone, in the first run of the
\* process and in every later one: a seen set and a local-ID dictionary hold only local
\* IDs of elements of this run's document that this run has gone past, no method name
\* is recorded before this run looks at methods, and the DIGGS namespace is the default
\* or the one of this run's root; when a run starts nothing is recorded at all.
C19_LookupStateOfThisRunOnly ==
  flow = "xml"
  => /\ imported_ids.projects \subseteq PassedIds("Project", "projects")
     /\ imported_ids.holes \subseteq PassedIds("Borehole", "holes")
     /\ imported_ids.samples \subseteq PassedIds("Sample", "samples")
     /\ DictKeys(gml_id_mapping.projects) \subseteq PassedIds("Project", "projects")
     /\ DictKeys(gml_id_mapping.holes) \subseteq PassedIds("Borehole", "holes")
     /\ DictKeys(gml_id_mapping.samples) \subseteq PassedIds("Sample", "samples")
     /\ pc \in {"parse", "schema", "projects", "holes", "samples", "aborted"}
        => methods_imported = {}
     /\ namespaces.diggs
        = (IF pc \in {"parse", "aborted"} \/ doc.root.ns = NoNS
           THEN "http://diggsml.org/schemas/2.6" ELSE doc.root.ns)
     /\ namespaces.gml = "http://www.opengis.net/gml/3.2"

\* a second run, on a document that repeats the local IDs of the first run's document,
\* has ended: its hole b1 and its sample s1 were imported again, under another root
\* namespace
C19_Witness ==
  /\ flow = "xml"
  /\ run = 2
  /\ pc = "xml_done"
  /\ faults = 0
  /\ "b1" \in imported_ids.holes
  /\ Cardinality({r \in RowsOf(idbDisk, "_HoleInfo") : r.holeName = "b1"}) = 2
  /\ Cardinality({r \in RowsOf(idbDisk, "_Samples") : r.sampleName = "s1"}) = 2
  /\ doc.root.ns = NoNS

\* the tag elements of the document carry pairwise distinct local IDs
NoRepeatedId(tag) ==
  \A i, j \in 1..Len(DocIds(tag)) : i # j => DocIds(tag)[i] # DocIds(tag)[j]

\* C20: an import into a fresh, empty store creates the tables it needs and, when it met
\* no storage failure, ends with as many committed Project, Hole and Sample rows as the
\* document has Project, borehole and Sample elements with pairwise distinct local IDs:
\* 1, 1 and 1 for one of each.
C20_FreshStoreRowPerElement ==
  pc = "xml_done" /\ faults = 0
  /\ NoRepeatedId("Project") /\ NoRepeatedId("Borehole") /\ NoRepeatedId("Sample")
  => /\ {"_Project", "_HoleInfo", "_Samples"} \subseteq idbDisk.tables
     /\ Len(idbDisk.rows["_Project"]) = Len(DocIds("Project"))
     /\ Len(idbDisk.rows["_HoleInfo"]) = Len(DocIds("Borehole"))
     /\ Len(idbDisk.rows["_Samples"]) = Len(DocIds("Sample"))

\* the Test elements of the document of the running import that hold an SPT test and
\* refer to a sample this run has imported, or to an imported hole with a sample row
LinkedSptTests ==
  IF doc.status # "ok" THEN {}
  ELSE LET d == Descendants(doc.root)
       IN {i \in 1..Len(d) :
             /\ d[i].tag = "Test"
             /\ \E j \in 1..Len(Descendants(d[i])) :
                  Descendants(d[i])[j].tag = "DrivenPenetrationTest"
             /\ \E j \in 1..Len(Descendants(d[i])) :
                  LET ref == Descendants(d[i])[j]
                  IN /\ ref.tag = "samplingFeatureRef"
                     /\ StartsWithHash(ref.href)
                     /\ \/ DictHas(gml_id_mapping.samples, LocalId(ref.href))
                        \/ /\ DictHas(gml_id_mapping.holes, LocalId(ref.href))
                           /\ \E r \in RowsOf(idb, "_Samples") :
                                r.holeID = DictGet(gml_id_mapping.holes, LocalId(ref.href))}

\* C21: an import that met no storage failure has ended with exactly one _SPT row for
\* each SPT observation whose reference resolves to a sample, the row's blow counts 1..4 being the
\* blow counts of the observation's drive sets in document order.
C21_OneSptRowPerLinkedObservation ==
  flow = "xml" /\ pc = "xml_done" /\ faults = 0
  => /\ Len(idbDisk.rows["_SPT"]) = Cardinality(LinkedSptTests)
     /\ \A r \in RowsOf(idbDisk, "_SPT") :
          <<r.blowCount_index1, r.blowCount_index2, r.blowCount_index3, r.blowCount_index4>>
          = DriveSetReadings

\* the factory type and the processor type name, up to letter case, a factory and a
\* processor type that factory advertises
Advertised(factory_type, processor_type) ==
  \E f \in {"excel", "diggs"} :
    /\ Lower(factory_type) = f
    /\ \E p \in get_available_processors(f) : Lower(processor_type) = p

\* C22: create_processor returns a processor instance for a factory type and a processor
\* type that factory advertises, whatever their letter case, and raises ValueError for
\* every other pair; process_data answers False for every other pair and raises nothing.
C22_FactoryCreatesOrRaises ==
  /\ call.fn = "create_processor"
     => IF Advertised(call.arg[1], call.arg[2])
        THEN call.out \in {"ExcelToSQLiteConverter", "ExcelTemplateGenerator",
                            "SQLiteToDiggsConverter", "DiggsToSQLiteImporter"}
        ELSE call.out = ValueError
  /\ call.fn = "process_data"
     => /\ call.out \in {"True", "False"}
        /\ ~Advertised(call.arg[1], call.arg[2]) => call.out = "False"

\* ('EXCEL', 'Template') gave a template generator
C22_Witness ==
  /\ call.fn = "create_processor"
  /\ call.arg = <<"EXCEL", "Template">>
  /\ call.out = "ExcelTemplateGenerator"

\* the procedure wrapper of the Test element handed in, NoElement without one
ProcedureOfCall == find_element(call.arg.test, "procedure", FALSE, call.arg.nsmap)

\* a tag element occurs in the procedure wrapper of the Test element handed in
OccursInProcedure(tag) ==
  /\ ProcedureOfCall # NoElement
  /\ find_element(ProcedureOfCall, tag, FALSE, call.arg.nsmap) # NoElement

\* C23: a Test is classified by the elements that occur in its procedure wrapper, in one
\* order: SPT when a DrivenPenetrationTest occurs, else Atterberg when an
\* AtterbergLimitsTest occurs, else (no procedure, no known test type) it is skipped; a
\* skipped Test is not counted as imported.
C23_ClassifiedByOccurrence ==
  call.fn = "import_test_from_measurement"
  => /\ call.out.handled
        = (IF OccursInProcedure("DrivenPenetrationTest") THEN "spt"
           ELSE IF OccursInProcedure("AtterbergLimitsTest") THEN "atterberg"
           ELSE "none")
     /\ call.out.handled = "none" => call.out.imported = FALSE

\* the tables whose rows carry a key of a row of table t
ChildTables(t) == {c \in AllTables : \E fk \in ForeignKeys(c) : fk.ref = t}

\* the labels of a mapper run before the rows of the named sheet are read
BeforeSheet(sheet) ==
  {"validate", "create", "open"}
    \cup {SheetOrder("corrected")[i] : i \in {j \in 1..Len(SheetOrder("corrected")) :
                                              \E k \in j + 1..Len(SheetOrder("corrected")) :
                                                SheetOrder("corrected")[k] = sheet}}

\* the labels of an importer run before the named phase
BeforePhase(phase) ==
  {"parse", "schema"}
    \cup {ImportPhases[i] : i \in {j \in 1..Len(ImportPhases) :
                                   \E k \in j + 1..Len(ImportPhases) : ImportPhases[k] = phase}}

NoRowsIn(store, ts) == \A t \in ts : RowsOf(store, t) = {}

\* C24: in every import run rows are inserted parents before children: at every point
\* of a run, in the connection's view and in the committed store, every non-null child
\* key names a parent row that is present; no Hole row is there before the Project (and
\* Client) and TestMethod rows have been read, no Sample, Strata or test-result row
\* before the Hole rows have been read, and the importer likewise goes projects, holes,
\* samples, methods, observations.
C24_ParentsBeforeChildren ==
  /\ ReferencesResolve(db) /\ ReferencesResolve(dbDisk)
  /\ ReferencesResolve(idb) /\ ReferencesResolve(idbDisk)
  /\ flow \in {"excel", "roundtrip"} /\ pc \in BeforeSheet("HoleInfo")
     => NoRowsIn(db, {"_HoleInfo"} \cup ChildTables("_HoleInfo"))
  /\ flow \in {"excel", "roundtrip"} /\ pc \in BeforeSheet("Samples")
     => NoRowsIn(db, {"_Samples"} \cup ChildTables("_Samples"))
  /\ flow \in {"xml", "roundtrip"} /\ pc \in BeforePhase("holes")
     => NoRowsIn(idb, {"_HoleInfo"} \cup ChildTables("_HoleInfo"))
  /\ flow \in {"xml", "roundtrip"} /\ pc \in BeforePhase("samples")
     => NoRowsIn(idb, {"_Samples"} \cup ChildTables("_Samples"))

\* a mapper run still reading the Samples sheet whose connection holds a Project row of a
\* Client row, a Hole row of that project and of a rig, a Sample row of the hole and an
\* SPT row of the sample
C24_Witness ==
  /\ flow = "excel" /\ pc = "Samples"
  /\ \E p \in RowsOf(db, "_Project"), h \in RowsOf(db, "_HoleInfo"),
        s \in RowsOf(db, "_Samples"), t \in RowsOf(db, "_SPT") :
       /\ p.Client_ID # NULL
       /\ h.Project_ID = p.Project_ID /\ h.rigID # NULL
       /\ s.holeID = h.holeID
       /\ t.Sample_ID = s.Sample_ID

\* C25: the importer accepts a document only if its root element's local name is the
\* DIGGS root: a well-formed document with any other root name, a Project root declared
\* in a DIGGS namespace included, is rejected with a hard failure before any import
\* phase runs (and before the store is touched).
C25_RootNamedDiggsOrRejected ==
  flow = "xml" /\ doc.status = "ok" /\ doc.root.tag # "Diggs"
  => /\ pc \in {"parse", "aborted"}
     /\ pc = "aborted" => err = "root"
     /\ idb \in {EmptyStore, SchemaStore}

\* C26: table creation and row insertion of a conversion run are committed as a unit:
\* the committed store never holds the tables the run created without the rows of the
\* run, so whenever the run's tables are in the committed store the run has ended with
\* its commit and the committed store is all the connection wrote.
C26_TablesAndRowsCommittedTogether ==
  flow = "excel" /\ "_Project" \in dbDisk.tables
  => pc = "done" /\ dbDisk = db

\* the worker thread t is inside its conversion
Converting(t) == threads[t].at = "func"

\* C27: no conversion runs concurrently with another: while one conversion started from
\* the GUI is running on its worker thread no second one is running, and the progress
\* indicator is active exactly while a conversion is running.
C27_OneConversionAtATime ==
  /\ \A t, u \in 1..MaxThreads : Converting(t) /\ Converting(u) => t = u
  /\ progress <=> \E t \in 1..MaxThreads : Converting(t)

\* the Samples rows read so far in the run of the sample dictionary
SamplesRead == {call.arg[i] : i \in 1..Len(call.arg)}

SamePair(r, hole_name, sample_name) ==
  safe_get(r.HoleName, "") = safe_get(hole_name, "")
  /\ safe_get(r.SampleName, "") = safe_get(sample_name, "")

\* C28: two Samples rows with different (hole name, sample name) pairs are never
\* registered under the same lookup key, and a later sheet's (Boring, Sample) reference
\* resolves to a sample that has exactly that pair (a missing name counting as empty
\* text): the last one read with it, and to none when no row has the pair.
C28_SampleKeyNamesOnePair ==
  flow = "keys"
  => /\ \A r1, r2 \in SamplesRead :
          sample_key(r1.HoleName, r1.SampleName) = sample_key(r2.HoleName, r2.SampleName)
          => SamePair(r1, r2.HoleName, r2.SampleName)
     /\ call.fn = "sample_ids.get"
        => LET with == {i \in 1..Len(call.arg) : SamePair(call.arg[i], call.out.Boring, call.out.Sample)}
           IN call.out.Sample_ID
                = (IF with = {} THEN NULL
                   ELSE call.arg[CHOOSE i \in with : \A j \in with : j <= i].Sample_ID)

\* the elements of the document that the named phase runs over and that carry no local ID
WithoutId(phase) ==
  {i \in 1..Len(PhaseElements(phase)) : GmlId(PhaseElements(phase)[i]) = NULL}

\* the rows the named phase owes: one per element without ID, one per distinct local ID
RowsOwed(phase) ==
  Cardinality(WithoutId(phase)) + Cardinality(DistinctIds(phase) \ {NULL})

\* C29: elements without a local ID attribute are not duplicates of one another: after an
\* import run without storage failure, into a store whose tables exist, every Project,
\* Borehole and Sample element without ID has a row of its own (next to one row per
\* distinct local ID).
C29_RowPerElementWithoutId ==
  flow = "xml" /\ pc = "xml_done" /\ faults = 0 /\ idb.tables = SchemaStore.tables
  => /\ Len(idb.rows["_Project"]) = RowsOwed("projects")
     /\ Len(idb.rows["_HoleInfo"]) = RowsOwed("holes")
     /\ Len(idb.rows["_Samples"]) = RowsOwed("samples")

\* how many elements of the written file carry the local ID id
WrittenWithId(id) ==
  Cardinality({i \in 1..Len(WrittenElements) : WrittenElements[i].id = id})

\* how many elements of the written file have the tag
WrittenWithTag(tag) ==
  Cardinality({i \in 1..Len(WrittenElements) : WrittenElements[i].tag = tag})

\* C30: every Hole, Sample, SPT and Atterberg row of the store appears in exactly one
\* element of the exported document, the Hole rows with a null project key, the Sample
\* rows with a null hole key and the test rows with a null sample key included.
C30_EveryRowExportedOnce ==
  Exported
  => /\ \A h \in RowsOf(dbDisk, "_HoleInfo") : WrittenWithId("hole_" \o h.holeID) = 1
     /\ \A s \in RowsOf(dbDisk, "_Samples") : WrittenWithId("sample_" \o s.Sample_ID) = 1
     /\ WrittenWithTag("DrivenPenetrationTest") = Len(dbDisk.rows["_SPT"])
     /\ WrittenWithTag("AtterbergLimitsTest") = Len(dbDisk.rows["AtterbergLimits"])

====
